---- MODULE Spec2Model ----
(***************************************************************************)
(* Configuration resolution of gh-actions-scaler (src/src/config.rs and    *)
(* src/src/config/resolver.rs) as a state machine.                         *)
(*                                                                         *)
(* A Rust String is a sequence of one-character strings, so that the       *)
(* regular expression of the resolver is run character by character.       *)
(* A ConfigError is the record [kind, message, arg, cause]: kind is the     *)
(* variant, message the format string of a ValidationFailure ("" else),    *)
(* arg the value the variant carries (the interpolated value of the        *)
(* message, the variable name, or the path) and cause the kind of the      *)
(* error of the operating system or of the parser ("" when there is none). *)
(* A value of the environment and the content of a file are sequences of   *)
(* characters too, with InvalidByte where the bytes are not UTF-8.         *)
(***************************************************************************)
EXTENDS Integers, Sequences, FiniteSets, TLC

VARIABLES
    env,            \* the process environment: variable name -> value
    files,          \* the file system: path -> content of a readable file
    yaml,           \* what reading and parsing the configuration file gives
    config_file,    \* the path handed to Config::try_from
    config_dir,     \* the directory the resolver reads ${file:...} from
    pc,             \* the position of the orchestrator
    machine_defaults, \* resolved_machine_defaults of resolve_config
    github,         \* the resolved GithubConfig
    id_generator,   \* MachineIdGenerator {id_set, next_id}
    out,            \* the machines resolved so far (resolve_machine_configs)
    origin,         \* origin[k]: the index in the document of out[k]
    error,          \* the ConfigError returned, NoError while there is none
    reads,          \* every environment lookup and file read made so far
    input,          \* a string handed to ConfigResolver::resolve on its own
    output,         \* what that call returned
    previous,       \* what the call of Config::try_from before this one returned
    shown,          \* the GithubConfig or SshConfig handed to Debug::fmt
    rendered,       \* the text Debug::fmt wrote for it
    clock,          \* the system clock, in seconds since the Unix epoch
    remote,         \* the remote machine: its cache file, if there, and its content
    runner          \* the call of Machine::start_runner: position, cache check, commands

vars == <<env, files, yaml, config_file, config_dir, pc, machine_defaults,
          github, id_generator, out, origin, error, reads, input, output,
          previous, shown, rendered, clock, remote, runner>>

----------------------------------------------------------------------------
(* Bounds of the model.                                                    *)

\* the longest machine list of a document
MaxMachines == 3

\* the days the clock runs through after the first
MaxDays == 2

\* the lines the cache file of the remote machine can take
MaxLines == 3

\* the most segments of a string handed to resolve on its own
MaxSegments == 3

----------------------------------------------------------------------------
(* Strings.                                                                *)

Empty == <<>>

is_empty(s) == Len(s) = 0

\* str::starts_with
starts_with(s, prefix) ==
    /\ Len(prefix) <= Len(s)
    /\ \A k \in 1..Len(prefix) : s[k] = prefix[k]

\* the pattern `pre` occurs in s at position p
IsPrefixAt(s, p, pre) ==
    /\ p + Len(pre) - 1 <= Len(s)
    /\ \A k \in 1..Len(pre) : s[p + k - 1] = pre[k]

\* char::is_whitespace, for the characters of the model
is_whitespace(c) == c \in {" ", "\n", "\t"}

\* str::trim_end
RECURSIVE trim_end(_)
trim_end(s) ==
    IF Len(s) > 0 /\ is_whitespace(s[Len(s)])
    THEN trim_end(SubSeq(s, 1, Len(s) - 1))
    ELSE s

\* bytes that are not UTF-8, in a value of the environment or in a file
InvalidByte == "0xFF"

\* the bytes are a str: String::from_utf8 and OsString::into_string succeed
is_unicode(s) == \A k \in 1..Len(s) : s[k] # InvalidByte

\* the decimal digits of n, as format!("{}", n) writes them
Digit(d) == <<"0", "1", "2", "3", "4", "5", "6", "7", "8", "9">>[d + 1]

RECURSIVE to_string(_)
to_string(n) ==
    IF n < 10 THEN <<Digit(n)>> ELSE to_string(n \div 10) \o <<Digit(n % 10)>>

\* the byte of a character (u8 order is the order of String::cmp)
Byte(c) ==
    CASE c = "\t" -> 9   [] c = "\n" -> 10  [] c = " " -> 32
      [] c = "$" -> 36   [] c = "-" -> 45   [] c = "/" -> 47
      [] c = "0" -> 48   [] c = "1" -> 49   [] c = "2" -> 50
      [] c = "3" -> 51   [] c = "4" -> 52   [] c = "5" -> 53
      [] c = "6" -> 54   [] c = "7" -> 55   [] c = "8" -> 56
      [] c = "9" -> 57   [] c = ":" -> 58
      [] c = "E" -> 69   [] c = "M" -> 77   [] c = "U" -> 85
      [] c = "V" -> 86   [] c = "Z" -> 90   [] c = "_" -> 95
      [] c = "a" -> 97   [] c = "b" -> 98   [] c = "c" -> 99
      [] c = "d" -> 100  [] c = "e" -> 101  [] c = "f" -> 102
      [] c = "g" -> 103  [] c = "h" -> 104  [] c = "i" -> 105
      [] c = "k" -> 107  [] c = "l" -> 108  [] c = "m" -> 109
      [] c = "n" -> 110  [] c = "o" -> 111  [] c = "p" -> 112
      [] c = "q" -> 113  [] c = "r" -> 114  [] c = "s" -> 115
      [] c = "t" -> 116  [] c = "u" -> 117  [] c = "x" -> 120
      [] c = "{" -> 123  [] c = "}" -> 125

----------------------------------------------------------------------------
(* ConfigError.                                                            *)

NoError == [kind |-> "None", message |-> "", arg |-> Empty, cause |-> ""]

UnresolvedEnvironmentVariable(name, cause) ==
    [kind |-> "UnresolvedEnvironmentVariable", message |-> "", arg |-> name,
     cause |-> cause]

UnresolvedFileVariable(path, cause) ==
    [kind |-> "UnresolvedFileVariable", message |-> "", arg |-> path,
     cause |-> cause]

ValidationFailure(message, arg) ==
    [kind |-> "ValidationFailure", message |-> message, arg |-> arg,
     cause |-> ""]

ReadFailure(path, cause) ==
    [kind |-> "ReadFailure", message |-> "", arg |-> path, cause |-> cause]

ParseFailure(path, cause) ==
    [kind |-> "ParseFailure", message |-> "", arg |-> path, cause |-> cause]

----------------------------------------------------------------------------
(* ConfigResolver (src/src/config/resolver.rs).                            *)

FilePrefix == <<"f", "i", "l", "e", ":">>

\* the position of the first '}' of s at or after p, 0 when there is none
RECURSIVE FindClose(_, _)
FindClose(s, p) ==
    IF p > Len(s) THEN 0
    ELSE IF s[p] = "}" THEN p
    ELSE FindClose(s, p + 1)

NoMatch == [kind |-> "none", last |-> 0, name |-> Empty]

\* the second alternative of RE at position p, \$\{(file:)?([^}]+)}, where
\* close is the first '}' after "${": [^}]+ runs to it and needs one
\* character at least, and (file:)? is given up when nothing would be left
\* for the name
Token(s, p, close) ==
    IF ~IsPrefixAt(s, p, <<"$", "{">>) \/ close = 0 \/ close = p + 2
    THEN NoMatch
    ELSE IF IsPrefixAt(s, p + 2, FilePrefix) /\ close > p + 7
    THEN [kind |-> "file", last |-> close, name |-> SubSeq(s, p + 7, close - 1)]
    ELSE [kind |-> "env", last |-> close, name |-> SubSeq(s, p + 2, close - 1)]

\* RE without its first alternative, (\$\$)
RE_without_escape(s, p) == Token(s, p, FindClose(s, p + 2))

\* The match of RE = (\$\$)|\$\{(file:)?([^}]+)} that starts at position p;
\* the first alternative is tried first.
RE(s, p) ==
    IF IsPrefixAt(s, p, <<"$", "$">>)
    THEN [kind |-> "escape", last |-> p + 1, name |-> Empty]
    ELSE Token(s, p, FindClose(s, p + 2))

\* set_config_error with the last error kept
set_config_error_last(acc, config_error) == [acc EXCEPT !.err = config_error]

\* ConfigVariableResolver::set_config_error: the first error is kept
set_config_error(acc, config_error) ==
    IF acc.err.kind = "None" THEN [acc EXCEPT !.err = config_error] ELSE acc

\* a variable that is not set gives the empty string, as in a shell
append_env_var_or_default(name, acc) ==
    IF name \in DOMAIN env /\ is_unicode(env[name])
    THEN [acc EXCEPT !.reads = Append(@, <<"env", name>>),
                     !.dst = @ \o env[name]]
    ELSE [acc EXCEPT !.reads = Append(@, <<"env", name>>)]

\* ConfigVariableResolver::append_env_var, with env::var: Err(NotPresent)
\* for a variable that is not set, Err(NotUnicode) for a value that is not
\* valid Unicode
append_env_var(name, acc) ==
    IF name \notin DOMAIN env
    THEN set_config_error([acc EXCEPT !.reads = Append(@, <<"env", name>>)],
                          UnresolvedEnvironmentVariable(name, "NotPresent"))
    ELSE IF ~is_unicode(env[name])
    THEN set_config_error([acc EXCEPT !.reads = Append(@, <<"env", name>>)],
                          UnresolvedEnvironmentVariable(name, "NotUnicode"))
    ELSE [acc EXCEPT !.reads = Append(@, <<"env", name>>),
                     !.dst = @ \o env[name]]

\* the path of the token is opened as it stands, from the working directory
path_push_left_out(dir, path) == path

\* PathBuf::push on the configuration directory
path_push(dir, path) ==
    IF path[1] = "/" THEN path
    ELSE IF is_empty(dir) \/ dir[Len(dir)] = "/" THEN dir \o path
    ELSE dir \o <<"/">> \o path

\* ConfigVariableResolver::append_file, from fs::read_to_string on:
\* Err(NotFound) for a file that is not there, Err(InvalidData) for a
\* content that is not UTF-8
read_to_string(path, acc) ==
    IF path \notin DOMAIN files
    THEN set_config_error([acc EXCEPT !.reads = Append(@, <<"file", path>>)],
                          UnresolvedFileVariable(path, "NotFound"))
    ELSE IF ~is_unicode(files[path])
    THEN set_config_error([acc EXCEPT !.reads = Append(@, <<"file", path>>)],
                          UnresolvedFileVariable(path, "InvalidData"))
    ELSE [acc EXCEPT !.reads = Append(@, <<"file", path>>),
                     !.dst = @ \o trim_end(files[path])]

\* ConfigVariableResolver::append_file
append_file(dir, path, acc) == read_to_string(path_push(dir, path), acc)

\* Replacer::replace_append of ConfigVariableResolver
replace_append(dir, caps, acc) ==
    IF caps.kind = "escape" THEN [acc EXCEPT !.dst = Append(@, "$")]
    ELSE IF caps.kind = "file" THEN append_file(dir, caps.name, acc)
    ELSE append_env_var(caps.name, acc)

\* Regex::replace in the place of replace_all: the first match is
\* replaced, the text after it copied
RECURSIVE replace_all_first_only(_, _, _, _)
replace_all_first_only(dir, s, p, acc) ==
    IF p > Len(s) THEN acc
    ELSE IF RE(s, p).kind = "none"
    THEN replace_all_first_only(dir, s, p + 1, [acc EXCEPT !.dst = Append(@, s[p])])
    ELSE [replace_append(dir, RE(s, p), acc) EXCEPT
            !.dst = @ \o SubSeq(s, RE(s, p).last + 1, Len(s))]

\* Regex::replace_all: the non-overlapping matches from left to right, the
\* text between them copied
RECURSIVE replace_all(_, _, _, _)
replace_from(dir, s, p, acc, caps) ==
    IF caps.kind = "none"
    THEN replace_all(dir, s, p + 1, [acc EXCEPT !.dst = Append(@, s[p])])
    ELSE replace_all(dir, s, caps.last + 1, replace_append(dir, caps, acc))

replace_all(dir, s, p, acc) ==
    IF p > Len(s) THEN acc ELSE replace_from(dir, s, p, acc, RE(s, p))

\* ConfigResolver::resolve, its end: Err(config_error) or Ok(resolved_value)
resolve_result(acc) ==
    IF acc.err.kind # "None"
    THEN [err |-> acc.err, value |-> Empty, reads |-> acc.reads]
    ELSE [err |-> NoError, value |-> acc.dst, reads |-> acc.reads]

\* ConfigResolver::resolve: [err, value, reads]; value is Empty on an error
resolve(dir, s) ==
    resolve_result(replace_all(dir, s, 1,
                       [dst |-> Empty, err |-> NoError, reads |-> <<>>]))

Plain(s) == [err |-> NoError, value |-> s]

\* ConfigResolver::resolve_or_else, up to its call of resolve: the string
\* resolve is called with (the input, or what else_fn returned when the
\* input is empty), or the error else_fn returned. else_fn is [err, value].
resolve_or_else(s, else_fn) == IF is_empty(s) THEN else_fn ELSE Plain(s)

\* A run of field initialisers `r.resolve(..)?` in the order they are
\* written: the first error returns, the fields after it are not evaluated.
\* items[k] is [err, value]: the input of the k-th resolve, or the error its
\* closure returned before resolve was called.
RECURSIVE resolve_fields(_, _, _, _)
\* the error of a field is kept and the fields after it are resolved
resolve_field_going_on(dir, items, k, acc, r) ==
    resolve_fields(dir, items, k + 1,
                   [acc EXCEPT !.err = IF @.kind = "None" THEN r.err ELSE @,
                               !.values = Append(@, r.value),
                               !.reads = @ \o r.reads])

resolve_field(dir, items, k, acc, r) ==
    IF r.err.kind # "None"
    THEN [acc EXCEPT !.err = r.err, !.reads = @ \o r.reads]
    ELSE resolve_fields(dir, items, k + 1,
                        [acc EXCEPT !.values = Append(@, r.value),
                                    !.reads = @ \o r.reads])

resolve_fields(dir, items, k, acc) ==
    IF k > Len(items) THEN acc
    ELSE IF items[k].err.kind # "None" THEN [acc EXCEPT !.err = items[k].err]
    ELSE resolve_field(dir, items, k, acc, resolve(dir, items[k].value))

Resolved(dir, items) ==
    resolve_fields(dir, items, 1,
                   [err |-> NoError, values |-> <<>>, reads |-> <<>>])

----------------------------------------------------------------------------
(* The configuration (src/src/config.rs).                                  *)

SshConfig(host, port, fingerprint, username, password, private_key, private_key_passphrase) ==
    [host |-> host, port |-> port, fingerprint |-> fingerprint,
     username |-> username, password |-> password,
     private_key |-> private_key,
     private_key_passphrase |-> private_key_passphrase]

\* impl Default for SshConfig
DefaultSshConfig == SshConfig(Empty, 0, Empty, Empty, Empty, Empty, Empty)

RunnersConfig(max) == [max |-> max]

MachineDefaultsConfig(ssh, runners) == [ssh |-> ssh, runners |-> runners]

MachineConfig(id, ssh, runners) == [id |-> id, ssh |-> ssh, runners |-> runners]

GithubConfig(personal_access_token, name_prefix, scope, repo_url) ==
    [personal_access_token |-> personal_access_token,
     runners |-> [name_prefix |-> name_prefix, scope |-> scope,
                  repo_url |-> repo_url]]

Config(log_level, gh, defaults, machines) ==
    [log_level |-> log_level, github |-> gh, machine_defaults |-> defaults,
     machines |-> machines]

\* the validation with the scope and the repository URL looked at before
\* the token and the name prefix
validate_github_config_url_first(config) ==
    IF config.runners.scope # <<"r", "e", "p", "o">>
    THEN ValidationFailure("An unsupported value '{}' in 'github.runners.scope'. 'repo' is the only supported value at the moment.", config.runners.scope)
    ELSE IF is_empty(config.runners.repo_url)
    THEN ValidationFailure("An empty or missing URL in 'github.runners.repo_url'.", Empty)
    ELSE IF /\ ~starts_with(config.runners.repo_url,
                            <<"h", "t", "t", "p", ":", "/", "/">>)
            /\ ~starts_with(config.runners.repo_url,
                            <<"h", "t", "t", "p", "s", ":", "/", "/">>)
    THEN ValidationFailure("An invalid URL '{}' in github.runners.repo_url.", config.runners.repo_url)
    ELSE IF is_empty(config.personal_access_token)
    THEN ValidationFailure("An empty or missing value in 'github.personal_access_token'. A GitHub personal access token must start with 'ghp_'.", Empty)
    ELSE IF ~starts_with(config.personal_access_token, <<"g", "h", "p", "_">>)
    THEN ValidationFailure("An invalid value in 'github.personal_access_token'. A GitHub personal access token must start with 'ghp_'.", Empty)
    ELSE IF is_empty(config.runners.name_prefix)
    THEN ValidationFailure("An empty value in 'github.runners.name_prefix'.", Empty)
    ELSE NoError

\* Config::resolve_github_config, the validation of the resolved values
validate_github_config(config) ==
    IF is_empty(config.personal_access_token)
    THEN ValidationFailure("An empty or missing value in 'github.personal_access_token'. A GitHub personal access token must start with 'ghp_'.", Empty)
    ELSE IF ~starts_with(config.personal_access_token, <<"g", "h", "p", "_">>)
    THEN ValidationFailure("An invalid value in 'github.personal_access_token'. A GitHub personal access token must start with 'ghp_'.", Empty)
    ELSE IF is_empty(config.runners.name_prefix)
    THEN ValidationFailure("An empty value in 'github.runners.name_prefix'.", Empty)
    ELSE IF config.runners.scope # <<"r", "e", "p", "o">>
    THEN ValidationFailure("An unsupported value '{}' in 'github.runners.scope'. 'repo' is the only supported value at the moment.", config.runners.scope)
    ELSE IF is_empty(config.runners.repo_url)
    THEN ValidationFailure("An empty or missing URL in 'github.runners.repo_url'.", Empty)
    ELSE IF /\ ~starts_with(config.runners.repo_url,
                            <<"h", "t", "t", "p", ":", "/", "/">>)
            /\ ~starts_with(config.runners.repo_url,
                            <<"h", "t", "t", "p", "s", ":", "/", "/">>)
    THEN ValidationFailure("An invalid URL '{}' in github.runners.repo_url.", config.runners.repo_url)
    ELSE NoError

\* resolve_github_config with the validation run on the values as written
github_config_of_raw(c, r) ==
    IF r.err.kind # "None"
    THEN [err |-> r.err, value |-> c, reads |-> r.reads]
    ELSE [err |-> validate_github_config(c),
          value |-> GithubConfig(r.values[1], r.values[2], r.values[3],
                                 r.values[4]),
          reads |-> r.reads]

\* Config::resolve_github_config once its four fields are resolved (r)
github_config_of(c, r) ==
    IF r.err.kind # "None"
    THEN [err |-> r.err, value |-> c, reads |-> r.reads]
    ELSE [err |-> validate_github_config(
                      GithubConfig(r.values[1], r.values[2], r.values[3],
                                   r.values[4])),
          value |-> GithubConfig(r.values[1], r.values[2], r.values[3],
                                 r.values[4]),
          reads |-> r.reads]

\* Config::resolve_github_config: [err, value, reads]
resolve_github_config(dir, c) ==
    github_config_of(c, Resolved(dir, <<Plain(c.personal_access_token),
                                        Plain(c.runners.name_prefix),
                                        Plain(c.runners.scope),
                                        Plain(c.runners.repo_url)>>))

\* the defaults with the fingerprint of the document kept
default_ssh_config_keeping_fingerprint(c, r) ==
    IF r.err.kind # "None"
    THEN [err |-> r.err, value |-> c, reads |-> r.reads]
    ELSE [err |-> NoError,
          value |-> SshConfig(r.values[1], c.port, c.fingerprint, r.values[2],
                              r.values[3], r.values[4], r.values[5]),
          reads |-> r.reads]

\* Config::resolve_default_ssh_config once its five fields are resolved (r)
default_ssh_config_of(c, r) ==
    IF r.err.kind # "None"
    THEN [err |-> r.err, value |-> c, reads |-> r.reads]
    ELSE [err |-> NoError,
          value |-> SshConfig(r.values[1], c.port, Empty, r.values[2],
                              r.values[3], r.values[4], r.values[5]),
          reads |-> r.reads]

\* Config::resolve_default_ssh_config: [err, value, reads]
resolve_default_ssh_config(dir, c) ==
    default_ssh_config_of(c, Resolved(dir, <<Plain(c.host), Plain(c.username),
                                             Plain(c.password),
                                             Plain(c.private_key),
                                             Plain(c.private_key_passphrase)>>))

\* Config::resolve_machine_defaults_config once ssh is resolved
machine_defaults_config_of(c, ssh) ==
    [err |-> ssh.err,
     value |-> MachineDefaultsConfig(ssh.value, RunnersConfig(c.runners.max)),
     reads |-> ssh.reads]

\* Config::resolve_machine_defaults_config: [err, value, reads]
resolve_machine_defaults_config(dir, c) ==
    machine_defaults_config_of(c, resolve_default_ssh_config(dir, c.ssh))

\* the choice of resolve_ssh_config with the defaults looked at first
password_or_private_key_default_first(defaults, c) ==
    IF ~is_empty(defaults.private_key)
    THEN <<Empty, defaults.private_key, defaults.private_key_passphrase>>
    ELSE IF ~is_empty(defaults.password)
    THEN <<defaults.password, Empty, Empty>>
    ELSE IF ~is_empty(c.private_key)
    THEN <<Empty, c.private_key, c.private_key_passphrase>>
    ELSE <<c.password, Empty, Empty>>

\* the password of the machine is kept beside its private key
password_or_private_key_keeping_password(defaults, c) ==
    IF ~is_empty(c.private_key)
    THEN <<c.password, c.private_key, c.private_key_passphrase>>
    ELSE IF ~is_empty(c.password)
    THEN <<c.password, Empty, Empty>>
    ELSE IF ~is_empty(defaults.private_key)
    THEN <<Empty, defaults.private_key, defaults.private_key_passphrase>>
    ELSE <<defaults.password, Empty, Empty>>

\* Config::resolve_ssh_config, the choice of password_or_private_key:
\* <<password, private_key, private_key_passphrase>>
password_or_private_key(defaults, c) ==
    IF ~is_empty(c.private_key)
    THEN <<Empty, c.private_key, c.private_key_passphrase>>
    ELSE IF ~is_empty(c.password)
    THEN <<c.password, Empty, Empty>>
    ELSE IF ~is_empty(defaults.private_key)
    THEN <<Empty, defaults.private_key, defaults.private_key_passphrase>>
    ELSE <<defaults.password, Empty, Empty>>

\* a closure that falls back on the invoking user instead of failing
fallback_or_os_user(fallback, message, machine_id) ==
    IF is_empty(fallback) THEN Plain(<<"r", "o", "o", "t">>) ELSE Plain(fallback)

\* the closures handed to resolve_or_else for host and username
fallback_or_failure(fallback, message, machine_id) ==
    IF is_empty(fallback)
    THEN [err |-> ValidationFailure(message, machine_id), value |-> Empty]
    ELSE Plain(fallback)

\* the port with the port of machine_defaults left out
resolve_port_ignoring_default(defaults_port, port) ==
    IF port # 0 THEN port ELSE 22

\* Config::resolve_ssh_config, the port
resolve_port(defaults_port, port) ==
    IF port # 0 THEN port
    ELSE IF defaults_port # 0 THEN defaults_port
    ELSE 22

\* resolve_ssh_config without the check that ends it
validate_credentials_left_out(resolved, machine_id) == NoError

\* Config::resolve_ssh_config, the check that ends it
validate_credentials(resolved, machine_id) ==
    IF is_empty(resolved.password) /\ is_empty(resolved.private_key)
    THEN ValidationFailure("'password' or 'private_key' must be specified for machine '{}'.", machine_id)
    ELSE NoError

\* Config::resolve_ssh_config once its six string fields are resolved (r)
ssh_config_of(machine_id, defaults, c, r) ==
    IF r.err.kind # "None"
    THEN [err |-> r.err, value |-> c, reads |-> r.reads]
    ELSE [err |-> validate_credentials(
                      SshConfig(r.values[1], resolve_port(defaults.port, c.port),
                                r.values[2], r.values[3], r.values[4],
                                r.values[5], r.values[6]),
                      machine_id),
          value |-> SshConfig(r.values[1], resolve_port(defaults.port, c.port),
                              r.values[2], r.values[3], r.values[4],
                              r.values[5], r.values[6]),
          reads |-> r.reads]

\* the string fields of resolve_ssh_config in the order they are resolved
ssh_fields(machine_id, defaults, c, chosen) ==
    <<resolve_or_else(c.host,
          fallback_or_failure(defaults.host,
              "'host' must be specified for machine '{}'.", machine_id)),
      Plain(c.fingerprint),
      resolve_or_else(c.username,
          fallback_or_failure(defaults.username,
              "'username' must be specified for machine '{}'.", machine_id)),
      Plain(chosen[1]), Plain(chosen[2]), Plain(chosen[3])>>

\* Config::resolve_ssh_config: [err, value, reads]
resolve_ssh_config(dir, machine_id, defaults, c) ==
    ssh_config_of(machine_id, defaults, c,
        Resolved(dir, ssh_fields(machine_id, defaults, c,
                                 password_or_private_key(defaults, c))))

\* let default_max_runners = 16
default_max_runners == 16

\* the runners with the max of machine_defaults left out
resolve_runners_config_ignoring_defaults(defaults, c) ==
    RunnersConfig(IF c.max # 0 THEN c.max ELSE default_max_runners)

\* Config::resolve_runners_config
resolve_runners_config(defaults, c) ==
    RunnersConfig(IF c.max # 0 THEN c.max
                  ELSE IF defaults.max # 0 THEN defaults.max
                  ELSE default_max_runners)

----------------------------------------------------------------------------
(* MachineIdGenerator.                                                     *)

\* format!("machine-{}", n)
machine_id_of(n) == <<"m", "a", "c", "h", "i", "n", "e", "-">> \o to_string(n)

\* MachineIdGenerator::new, from the k-th machine on: [err, id_set]
RECURSIVE collect_ids(_, _, _)
collect_ids(cfgs, k, id_set) ==
    IF k > Len(cfgs) THEN [err |-> NoError, id_set |-> id_set]
    ELSE IF is_empty(cfgs[k].id) THEN collect_ids(cfgs, k + 1, id_set)
    ELSE IF cfgs[k].id \in id_set
    THEN [err |-> ValidationFailure("A duplicate machine ID '{}' was found.",
                                    cfgs[k].id),
          id_set |-> id_set]
    ELSE collect_ids(cfgs, k + 1, id_set \cup {cfgs[k].id})

\* MachineIdGenerator {id_set, next_id: 1}
id_generator_of(r) ==
    [err |-> r.err, value |-> [id_set |-> r.id_set, next_id |-> 1]]

\* MachineIdGenerator::new: [err, value]
MachineIdGenerator_new(cfgs) == id_generator_of(collect_ids(cfgs, 1, {}))

\* the loop of MachineIdGenerator::generate: the first n from next_id on
\* whose id is not in id_set
RECURSIVE first_free(_, _)
first_free(id_set, n) ==
    IF machine_id_of(n) \in id_set THEN first_free(id_set, n + 1) ELSE n

\* MachineIdGenerator::generate, the id machine-<n> is taken
generated(generator, n, reads_made) ==
    [err |-> NoError, id |-> machine_id_of(n),
     generator |-> [id_set |-> generator.id_set \cup {machine_id_of(n)},
                    next_id |-> n],
     reads |-> reads_made]

\* MachineIdGenerator::generate once cfg.id is resolved (specified_id)
generate_from(generator, specified_id) ==
    IF specified_id.err.kind # "None"
    THEN [err |-> specified_id.err, id |-> Empty, generator |-> generator,
          reads |-> specified_id.reads]
    ELSE IF ~is_empty(specified_id.value)
    THEN [err |-> NoError, id |-> specified_id.value,
          generator |-> generator, reads |-> specified_id.reads]
    ELSE generated(generator,
                   first_free(generator.id_set, generator.next_id),
                   specified_id.reads)

\* MachineIdGenerator::generate: [err, id, generator, reads]
generate(dir, generator, cfg) ==
    generate_from(generator, resolve(dir, cfg.id))

----------------------------------------------------------------------------
(* out.sort_by(|a, b| a.id.cmp(&b.id)).                                    *)

\* the first position where a and b differ, 0 when one is a prefix of the
\* other
RECURSIVE first_difference(_, _, _)
first_difference(a, b, k) ==
    IF k > Len(a) \/ k > Len(b) THEN 0
    ELSE IF a[k] # b[k] THEN k
    ELSE first_difference(a, b, k + 1)

\* String::cmp, decided at position k
cmp_le_at(a, b, k) ==
    IF k = 0 THEN Len(a) <= Len(b) ELSE Byte(a[k]) < Byte(b[k])

\* String::cmp is not Greater: the bytes decide at the first difference,
\* the lengths when one string is a prefix of the other
cmp_le(a, b) == cmp_le_at(a, b, first_difference(a, b, 1))

\* x put into the sorted index list after every index whose id is not
\* greater (the sort is stable)
RECURSIVE insert_by_id(_, _, _)
insert_by_id(machines, sorted, x) ==
    IF sorted = <<>> THEN <<x>>
    ELSE IF cmp_le(machines[sorted[1]].id, machines[x].id)
    THEN <<sorted[1]>> \o insert_by_id(machines, Tail(sorted), x)
    ELSE <<x>> \o sorted

\* the order of the machines when they are not sorted
sort_by_id_left_out(machines, k) == [i \in 1..k |-> i]

\* the order sort_by gives: the indices of the first k machines, sorted
RECURSIVE sort_by_id(_, _)
sort_by_id(machines, k) ==
    IF k = 0 THEN <<>>
    ELSE insert_by_id(machines, sort_by_id(machines, k - 1), k)

----------------------------------------------------------------------------
(* Config::try_from.                                                       *)

\* the position of the last '/' of a path, 0 when there is none
RECURSIVE last_separator(_, _)
last_separator(path, k) ==
    IF k = 0 THEN 0
    ELSE IF path[k] = "/" THEN k
    ELSE last_separator(path, k - 1)

\* config_dir of Config::try_from: the path without its last component,
\* "." when nothing is left
config_dir_of(path) ==
    LET k == last_separator(path, Len(path)) IN
    IF k = 0 THEN <<".">>
    ELSE IF k = 1 THEN <<"/">>
    ELSE SubSeq(path, 1, k - 1)

----------------------------------------------------------------------------
(* The environments, files and documents of the model.                     *)

EnvE == <<"$", "{", "E", "}">>
EnvM == <<"$", "{", "M", "}">>
EnvU == <<"$", "{", "U", "}">>
EnvV == <<"$", "{", "V", "}">>
EnvZ == <<"$", "{", "Z", "}">>
FileK == <<"$", "{", "f", "i", "l", "e", ":", "k", "}">>
FileQ == <<"$", "{", "f", "i", "l", "e", ":", "q", "}">>
EnvN == <<"$", "{", "N", "}">>
FileB == <<"$", "{", "f", "i", "l", "e", ":", "b", "}">>
FileRootK == <<"$", "{", "f", "i", "l", "e", ":", "/", "k", "}">>
Escape == <<"$", "$">>

\* E, M and V hold text, Z holds the empty string, N holds bytes that are
\* not Unicode, U is never set
Envs ==
    { (<<"E">> :> <<"a">>) @@ (<<"M">> :> machine_id_of(1))
         @@ (<<"V">> :> EnvE) @@ (<<"Z">> :> Empty)
         @@ (<<"N">> :> <<InvalidByte>>),
      (<<"M">> :> machine_id_of(1)) @@ (<<"V">> :> EnvE)
         @@ (<<"Z">> :> Empty) @@ (<<"N">> :> <<InvalidByte>>) }

\* the files: k in the directory d, with white space around its text, and
\* another k in the working directory (k and ./k are one file) and in the
\* root; b in d is not UTF-8; there is no file q
Files ==
    (<<"d", "/", "k">> :> <<" ", "k", "\t", "\n">>)
      @@ (<<"k">> :> <<"\t", "w", "\n">>)
      @@ (<<".", "/", "k">> :> <<"\t", "w", "\n">>)
      @@ (<<"/", "k">> :> <<"r">>)
      @@ (<<"d", "/", "b">> :> <<"b", InvalidByte>>)

ConfigFile == <<"d", "/", "c">>

\* the paths Config::try_from is called with: in a directory, in the
\* working directory, in the root
ConfigFiles == {ConfigFile, <<"c">>, <<"/", "c">>}

ValidGithub ==
    GithubConfig(<<"g", "h", "p", "_", "t">>, <<"r">>, <<"r", "e", "p", "o">>,
                 <<"h", "t", "t", "p", "s", ":", "/", "/", "x">>)

ValidSsh == SshConfig(<<"h">>, 0, Empty, <<"u">>, <<"p">>, Empty, Empty)

NoDefaults == MachineDefaultsConfig(DefaultSshConfig, RunnersConfig(0))

Document(gh, defaults, machines) ==
    [status |-> "ok", cause |-> "",
     config |-> Config("Info", gh, defaults, machines)]

\* the ids of the machines vary
IdPool ==
    {Empty, <<"a">>, EnvE, EnvM, EnvZ, EnvU, machine_id_of(1), machine_id_of(2)}

IdDocuments ==
    { Document(ValidGithub, NoDefaults,
               [k \in DOMAIN ids |->
                    MachineConfig(ids[k], ValidSsh, RunnersConfig(0))]) :
        ids \in UNION {[1..n -> IdPool] : n \in 0..MaxMachines} }

\* host and username of one machine and of machine_defaults vary
HostPool == {Empty, <<"h">>, EnvZ, EnvU, EnvV, Escape \o <<"{", "E", "}">>}

UsernamePool == {Empty, <<"u">>, EnvZ, Escape \o <<"u">>}

HostDocuments ==
    { Document(ValidGithub,
               MachineDefaultsConfig(
                   [DefaultSshConfig EXCEPT !.host = f[3], !.username = f[4]],
                   RunnersConfig(0)),
               <<MachineConfig(Empty,
                     [ValidSsh EXCEPT !.host = f[1], !.username = f[2]],
                     RunnersConfig(0))>>) :
        f \in HostPool \X UsernamePool \X HostPool \X UsernamePool }

\* the credentials of one machine and of machine_defaults vary
SecretPool == {Empty, <<"p">>, EnvZ, Escape \o <<"{", "E", "}">>}

PassphrasePool == {Empty, <<"q">>, EnvU}

CredentialDocuments ==
    { Document(ValidGithub,
               MachineDefaultsConfig(
                   [DefaultSshConfig EXCEPT !.password = f[4],
                                            !.private_key = f[5],
                                            !.private_key_passphrase = f[6]],
                   RunnersConfig(0)),
               <<MachineConfig(<<"a">>,
                     [ValidSsh EXCEPT !.password = f[1], !.private_key = f[2],
                                      !.private_key_passphrase = f[3]],
                     RunnersConfig(0))>>) :
        f \in SecretPool \X SecretPool \X PassphrasePool
              \X SecretPool \X SecretPool \X PassphrasePool }

\* the numbers, the fingerprints and what is missing vary
PortPool == {0, 22, 2222, 65535}

MaxPool == {0, 1, 16}

NumberDocuments ==
    { Document(ValidGithub,
               MachineDefaultsConfig(
                   [DefaultSshConfig EXCEPT !.port = f[3], !.fingerprint = f[6]],
                   RunnersConfig(f[4])),
               <<MachineConfig(Empty,
                     [ValidSsh EXCEPT !.port = f[1], !.fingerprint = f[5]],
                     RunnersConfig(f[2]))>>) :
        f \in PortPool \X MaxPool \X PortPool \X MaxPool
              \X {Empty, <<"f">>, EnvU} \X {Empty, <<"f">>, EnvU} }

\* host, username and credentials are there or not, in two machines
PresencePool == {Empty, <<"x">>}

PresenceDocuments ==
    { Document(ValidGithub,
               MachineDefaultsConfig(
                   [DefaultSshConfig EXCEPT !.host = f[5], !.username = f[6],
                        !.password = f[7], !.private_key = f[8]],
                   RunnersConfig(0)),
               <<MachineConfig(Empty, ValidSsh, RunnersConfig(0)),
                 MachineConfig(Empty,
                     [DefaultSshConfig EXCEPT !.host = f[1], !.username = f[2],
                          !.password = f[3], !.private_key = f[4]],
                     RunnersConfig(0))>>) :
        f \in PresencePool \X PresencePool \X PresencePool \X PresencePool
              \X PresencePool \X PresencePool \X PresencePool \X PresencePool }

\* the GitHub block varies
GithubDocuments ==
    { Document(GithubConfig(f[1], f[2], f[3], f[4]), NoDefaults,
               <<MachineConfig(Empty, ValidSsh, RunnersConfig(0))>>) :
        f \in {Empty, <<"g", "h", "p", "_", "t">>, <<"x">>, EnvU, EnvZ,
               EnvZ \o <<"g", "h", "p", "_", "t">>}
              \X {Empty, <<"r">>, EnvZ}
              \X {<<"r", "e", "p", "o">>, <<"o", "r", "g">>,
                  EnvZ \o <<"r", "e", "p", "o">>}
              \X {Empty, <<"h", "t", "t", "p", ":", "/", "/", "x">>,
                  <<"h", "t", "t", "p", "s", ":", "/", "/", "x">>,
                  <<"f", "t", "p", ":", "/", "/", "x">>, EnvZ} }

\* something is wrong in machine_defaults, in the GitHub block and in the
\* machines at once
OrderGithubPool ==
    {ValidGithub,
     [ValidGithub EXCEPT !.personal_access_token = Empty],
     [ValidGithub EXCEPT !.personal_access_token = EnvU],
     [ValidGithub EXCEPT !.runners.scope = <<"o", "r", "g">>]}

OrderDefaultsPool ==
    {NoDefaults, [NoDefaults EXCEPT !.ssh.host = EnvU]}

OrderMachinesPool ==
    {<<>>,
     <<MachineConfig(Empty, ValidSsh, RunnersConfig(0))>>,
     <<MachineConfig(<<"a">>, ValidSsh, RunnersConfig(0)),
       MachineConfig(<<"a">>, ValidSsh, RunnersConfig(0))>>,
     <<MachineConfig(EnvU, ValidSsh, RunnersConfig(0))>>,
     <<MachineConfig(Empty, [ValidSsh EXCEPT !.host = Empty],
                     RunnersConfig(0))>>,
     <<MachineConfig(Empty, [ValidSsh EXCEPT !.username = EnvE],
                     RunnersConfig(0))>>,
     <<MachineConfig(Empty, ValidSsh, RunnersConfig(0)),
       MachineConfig(Empty, [ValidSsh EXCEPT !.password = Empty],
                     RunnersConfig(0))>>}

OrderDocuments ==
    { Document(f[1], f[2], f[3]) :
        f \in OrderGithubPool \X OrderDefaultsPool \X OrderMachinesPool }

\* a configuration file that cannot be read, or cannot be parsed
BrokenDocuments ==
    { [status |-> s[1], cause |-> s[2],
       config |-> Config("Info",
                         [ValidGithub EXCEPT !.runners.name_prefix = EnvE],
                         NoDefaults, <<>>)] :
        s \in {<<"unreadable", "NotFound">>, <<"unreadable", "PermissionDenied">>,
               <<"unreadable", "InvalidData">>, <<"malformed", "Syntax">>} }

\* documents with tokens for files and for a variable that is not Unicode,
\* and with two tokens in one string, read from each of the paths
PathPool == {FileK, FileQ, FileB, FileRootK, EnvN, EnvU, EnvM \o FileK}

\* the field after each of them holds the token of M
PathDocuments ==
    { Document([ValidGithub EXCEPT
                  !.runners.name_prefix = f[1],
                  !.runners.repo_url = ValidGithub.runners.repo_url \o EnvM],
               NoDefaults,
               <<MachineConfig(Empty,
                               [ValidSsh EXCEPT !.fingerprint = f[2],
                                                !.username = EnvM],
                               RunnersConfig(0))>>) :
        f \in ({<<"r">>} \cup PathPool) \X PathPool }


\* yaml is one of the documents of the model
IsDocument(y) ==
    \/ y \in IdDocuments
    \/ y \in HostDocuments
    \/ y \in CredentialDocuments
    \/ y \in NumberDocuments
    \/ y \in PresenceDocuments
    \/ y \in GithubDocuments
    \/ y \in OrderDocuments
    \/ y \in BrokenDocuments

NoOutput == [err |-> NoError, value |-> Empty, reads |-> <<>>]

\* no value has been handed to Debug::fmt
NothingShown ==
    /\ shown = GithubConfig(Empty, Empty, Empty, Empty)
    /\ rendered = <<>>

\* Machine::start_runner has not been called: the remote machine has no
\* cache file
NoCall ==
    [pc |-> "Idle", is_valid |-> "None", log |-> <<>>, recorded |-> FALSE,
     version |-> Empty, failed |-> FALSE]

NoRunner ==
    /\ clock = 0
    /\ remote = [is_file |-> FALSE, content |-> Empty]
    /\ runner = NoCall

\* Result<Config, ConfigError>: Ok(Config {github, machine_defaults,
\* machines}) or Err(error); NoResult while no call has returned
NoResult ==
    [kind |-> "None", error |-> NoError, github |-> ValidGithub,
     machine_defaults |-> NoDefaults, machines |-> <<>>]

Ok(gh, defaults, machines) ==
    [kind |-> "Ok", error |-> NoError, github |-> gh,
     machine_defaults |-> defaults, machines |-> machines]

Err(config_error) ==
    [kind |-> "Err", error |-> config_error, github |-> ValidGithub,
     machine_defaults |-> NoDefaults, machines |-> <<>>]

----------------------------------------------------------------------------
(* The run of Config::try_from.                                            *)

Init ==
    /\ env \in Envs
    /\ files = Files
    /\ \/ IsDocument(yaml) /\ config_file = ConfigFile
       \/ yaml \in PathDocuments \cup BrokenDocuments
            /\ config_file \in ConfigFiles
    /\ config_dir = Empty
    /\ pc = "Start"
    /\ machine_defaults = NoDefaults
    /\ github = ValidGithub
    /\ id_generator = [id_set |-> {}, next_id |-> 1]
    /\ out = <<>>
    /\ origin = <<>>
    /\ error = NoError
    /\ reads = <<>>
    /\ input = Empty
    /\ output = NoOutput
    /\ previous = NoResult
    /\ NothingShown
    /\ NoRunner

\* the path is reported with the working directory put before it
parsed_config_with_joined_path(path, y) ==
    IF y.status = "unreadable"
    THEN ReadFailure(path_push(<<".">>, path), y.cause)
    ELSE IF y.status = "malformed"
    THEN ParseFailure(path_push(<<".">>, path), y.cause)
    ELSE NoError

\* parsed_config of Config::try_from: the error of fs::read_to_string or
\* of serde_yaml_ng::from_str with config_file.to_str() as its path,
\* NoError for Ok(config)
parsed_config(path, y) ==
    IF y.status = "unreadable" THEN ReadFailure(path, y.cause)
    ELSE IF y.status = "malformed" THEN ParseFailure(path, y.cause)
    ELSE NoError

\* fs::read_to_string and serde_yaml_ng::from_str, then config_dir
try_from ==
    /\ pc = "Start"
    /\ IF parsed_config(config_file, yaml).kind # "None"
       THEN /\ pc' = "Failed"
            /\ error' = parsed_config(config_file, yaml)
            /\ UNCHANGED config_dir
       ELSE /\ pc' = "Loaded"
            /\ config_dir' = config_dir_of(config_file)
            /\ UNCHANGED error
    /\ UNCHANGED <<env, files, yaml, config_file, machine_defaults, github,
                   id_generator, out, origin, reads, input, output,
                   previous, shown, rendered, clock, remote, runner>>

\* what resolve_config does with the resolved machine_defaults (r)
defaults_resolved(r) ==
    /\ reads' = reads \o r.reads
    /\ IF r.err.kind # "None"
       THEN /\ pc' = "Failed"
            /\ error' = r.err
            /\ UNCHANGED machine_defaults
       ELSE /\ pc' = "DefaultsResolved"
            /\ machine_defaults' = r.value
            /\ UNCHANGED error

\* resolve_machine_defaults_config leaving a value in the environment for
\* a variable that is not set
resolve_machine_defaults_setting_env ==
    /\ pc = "Loaded"
    /\ defaults_resolved(
           resolve_machine_defaults_config(config_dir,
                                           yaml.config.machine_defaults))
    /\ env' = (<<"U">> :> Empty) @@ env
    /\ UNCHANGED <<files, yaml, config_file, config_dir, github,
                   id_generator, out, origin, input, output, previous,
                   shown, rendered, clock, remote, runner>>

\* resolve_config: resolve_machine_defaults_config(..)?
resolve_machine_defaults ==
    /\ pc = "Loaded"
    /\ defaults_resolved(
           resolve_machine_defaults_config(config_dir,
                                           yaml.config.machine_defaults))
    /\ UNCHANGED <<env, files, yaml, config_file, config_dir, github,
                   id_generator, out, origin, input, output,
                   previous, shown, rendered, clock, remote, runner>>

\* resolve_config going on to the machines whatever the GitHub block gave
github_resolved_unchecked(r) ==
    /\ reads' = reads \o r.reads
    /\ pc' = "GithubResolved"
    /\ github' = r.value
    /\ UNCHANGED error

\* what resolve_config does with the resolved GitHub block (r)
github_resolved(r) ==
    /\ reads' = reads \o r.reads
    /\ IF r.err.kind # "None"
       THEN /\ pc' = "Failed"
            /\ error' = r.err
            /\ UNCHANGED github
       ELSE /\ pc' = "GithubResolved"
            /\ github' = r.value
            /\ UNCHANGED error

\* resolve_config: github: resolve_github_config(..)?
resolve_github ==
    /\ pc = "DefaultsResolved"
    /\ github_resolved(resolve_github_config(config_dir, yaml.config.github))
    /\ UNCHANGED <<env, files, yaml, config_file, config_dir,
                   machine_defaults, id_generator, out, origin, input, output,
                   previous, shown, rendered, clock, remote, runner>>

\* what resolve_machine_configs does with the new generator (r)
id_generator_made(r) ==
    IF r.err.kind # "None"
    THEN /\ pc' = "Failed"
         /\ error' = r.err
         /\ UNCHANGED id_generator
    ELSE /\ pc' = "Machines"
         /\ id_generator' = r.value
         /\ UNCHANGED error

\* resolve_machine_configs: MachineIdGenerator::new(cfgs)?
new_id_generator ==
    /\ pc = "GithubResolved"
    /\ id_generator_made(MachineIdGenerator_new(yaml.config.machines))
    /\ UNCHANGED <<env, files, yaml, config_file, config_dir,
                   machine_defaults, github, out, origin, reads, input, output,
                   previous, shown, rendered, clock, remote, runner>>

\* the turn of the loop going on after an error of resolve_ssh_config
machine_resolved_skipping(id, ssh, runners) ==
    IF id.err.kind # "None"
    THEN /\ pc' = "Failed"
         /\ error' = id.err
         /\ reads' = reads \o id.reads
         /\ UNCHANGED <<id_generator, out, origin>>
    ELSE /\ out' = Append(out, MachineConfig(id.id, ssh.value, runners))
         /\ origin' = Append(origin, Len(out) + 1)
         /\ id_generator' = id.generator
         /\ reads' = reads \o id.reads \o ssh.reads
         /\ UNCHANGED <<pc, error>>

\* the turn of the loop once id, ssh and runners are there
machine_resolved(id, ssh, runners) ==
    IF id.err.kind # "None"
    THEN /\ pc' = "Failed"
         /\ error' = id.err
         /\ reads' = reads \o id.reads
         /\ UNCHANGED <<id_generator, out, origin>>
    ELSE IF ssh.err.kind # "None"
    THEN /\ pc' = "Failed"
         /\ error' = ssh.err
         /\ reads' = reads \o id.reads \o ssh.reads
         /\ id_generator' = id.generator
         /\ UNCHANGED <<out, origin>>
    ELSE /\ out' = Append(out, MachineConfig(id.id, ssh.value, runners))
         /\ origin' = Append(origin, Len(out) + 1)
         /\ id_generator' = id.generator
         /\ reads' = reads \o id.reads \o ssh.reads
         /\ UNCHANGED <<pc, error>>

\* the turn of the loop once the id is generated
machine_with_id(c, id) ==
    machine_resolved(id,
        resolve_ssh_config(config_dir, id.id, machine_defaults.ssh, c.ssh),
        resolve_runners_config(machine_defaults.runners, c.runners))

\* resolve_machine_configs: one turn of `for c in cfgs`
resolve_machine ==
    /\ pc = "Machines"
    /\ Len(out) < Len(yaml.config.machines)
    /\ machine_with_id(yaml.config.machines[Len(out) + 1],
           generate(config_dir, id_generator,
                    yaml.config.machines[Len(out) + 1]))
    /\ UNCHANGED <<env, files, yaml, config_file, config_dir,
                   machine_defaults, github, input, output,
                   previous, shown, rendered, clock, remote, runner>>

\* out.sort_by(..) and Ok(out), order being the sorted indices
sorted_machines(order) ==
    /\ pc' = "Done"
    /\ out' = [k \in 1..Len(out) |-> out[order[k]]]
    /\ origin' = [k \in 1..Len(out) |-> origin[order[k]]]
    /\ UNCHANGED error

\* resolve_machine_configs after the loop with the empty list let through
finish_machine_configs_accepting_empty ==
    /\ pc = "Machines"
    /\ Len(out) = Len(yaml.config.machines)
    /\ sorted_machines(sort_by_id(out, Len(out)))
    /\ UNCHANGED <<env, files, yaml, config_file, config_dir,
                   machine_defaults, github, id_generator, reads, input, output,
                   previous, shown, rendered, clock, remote, runner>>

\* resolve_machine_configs after the loop: the empty list is refused, the
\* machines are sorted by id
finish_machine_configs ==
    /\ pc = "Machines"
    /\ Len(out) = Len(yaml.config.machines)
    /\ IF out = <<>>
       THEN /\ pc' = "Failed"
            /\ error' = ValidationFailure("There must be at least one machine in the configuration.", Empty)
            /\ UNCHANGED <<out, origin>>
       ELSE sorted_machines(sort_by_id(out, Len(out)))
    /\ UNCHANGED <<env, files, yaml, config_file, config_dir,
                   machine_defaults, github, id_generator, reads, input, output,
                   previous, shown, rendered, clock, remote, runner>>

Next ==
    \/ try_from
    \/ resolve_machine_defaults
    \/ resolve_github
    \/ new_id_generator
    \/ resolve_machine
    \/ finish_machine_configs

Spec == Init /\ [][Next]_vars

----------------------------------------------------------------------------
(* Config::try_from called twice.                                          *)

\* what the call that is over returned
Returned ==
    IF pc = "Done" THEN Ok(github, machine_defaults, out) ELSE Err(error)

\* the first call has returned and Config::try_from is called again on the
\* same path: the locals of the first call are gone, the environment and
\* the files are what the first call left
try_from_again ==
    /\ pc \in {"Done", "Failed"}
    /\ previous.kind = "None"
    /\ previous' = Returned
    /\ pc' = "Start"
    /\ config_dir' = Empty
    /\ machine_defaults' = NoDefaults
    /\ github' = ValidGithub
    /\ id_generator' = [id_set |-> {}, next_id |-> 1]
    /\ out' = <<>>
    /\ origin' = <<>>
    /\ error' = NoError
    /\ reads' = <<>>
    /\ UNCHANGED <<env, files, yaml, config_file, input, output, shown,
                   rendered, clock, remote, runner>>

NextTwice ==
    \/ try_from
    \/ resolve_machine_defaults
    \/ resolve_github
    \/ new_id_generator
    \/ resolve_machine
    \/ finish_machine_configs
    \/ try_from_again

SpecTwice == Init /\ [][NextTwice]_vars

----------------------------------------------------------------------------
(* ConfigResolver::resolve on its own.                                     *)

\* the segments a string is written with: text, '$$', tokens, and the
\* characters of a token on their own
Segments ==
    {<<"a">>, Escape, EnvE, EnvZ, EnvU, EnvV, EnvN, FileK, FileQ, FileB,
     <<"$">>, <<"{">>, <<"}">>, <<"E">>}

RECURSIVE Flatten(_)
Flatten(segments) ==
    IF segments = <<>> THEN <<>>
    ELSE segments[1] \o Flatten(Tail(segments))

Inputs ==
    { Flatten(segments) :
        segments \in UNION {[1..n -> Segments] : n \in 0..MaxSegments} }

InitResolve ==
    /\ env \in Envs
    /\ files = Files
    /\ yaml = [status |-> "ok", cause |-> "",
               config |-> Config("Info", ValidGithub, NoDefaults, <<>>)]
    /\ config_file \in ConfigFiles
    /\ config_dir = config_dir_of(config_file)
    /\ pc = "Resolve"
    /\ machine_defaults = NoDefaults
    /\ github = ValidGithub
    /\ id_generator = [id_set |-> {}, next_id |-> 1]
    /\ out = <<>>
    /\ origin = <<>>
    /\ error = NoError
    /\ reads = <<>>
    /\ input \in Inputs
    /\ output = NoOutput
    /\ previous = NoResult
    /\ NothingShown
    /\ NoRunner

\* one call of ConfigResolver::resolve
resolve_input ==
    /\ pc = "Resolve"
    /\ pc' = "Resolved"
    /\ output' = resolve(config_dir, input)
    /\ reads' = reads \o output'.reads
    /\ UNCHANGED <<env, files, yaml, config_file, config_dir,
                   machine_defaults, github, id_generator, out, origin, error,
                   input, previous,
                   shown, rendered, clock, remote, runner>>

NextResolve == resolve_input

SpecResolve == InitResolve /\ [][NextResolve]_vars

----------------------------------------------------------------------------
(* Machine (src/src/machine.rs): the authentication of connect.            *)

\* Machine::passphrase_opt: None for an empty passphrase
passphrase_opt(ssh) ==
    IF is_empty(ssh.private_key_passphrase)
    THEN [some |-> FALSE, value |-> Empty]
    ELSE [some |-> TRUE, value |-> ssh.private_key_passphrase]

\* Machine::connect, the authentication it asks the session for:
\* userauth_pubkey_memory when the password is empty, else
\* userauth_password
userauth(ssh) ==
    IF is_empty(ssh.password)
    THEN [method |-> "pubkey_memory", username |-> ssh.username,
          secret |-> ssh.private_key, passphrase |-> passphrase_opt(ssh)]
    ELSE [method |-> "password", username |-> ssh.username,
          secret |-> ssh.password,
          passphrase |-> [some |-> FALSE, value |-> Empty]]

----------------------------------------------------------------------------
(* Machine::start_runner and the cache of the container image. The remote  *)
(* machine is its cache file ${XDG_CACHE_HOME:-$HOME/.cache}/              *)
(* gh-actions-scaler; the words of a command are put together with spaces, *)
(* so that 'echo version >> path' is run by the remote shell.              *)

seconds_a_day == 86400

\* what Machine::is_valid_cache_image runs on the remote machine or asks of
\* the system, each of which can fail
Commands == {"echo_dir", "now", "test", "mkdir", "echo", "cat"}

\* Machine::now_cache_version: the days since the epoch, in digits
now_cache_version(seconds) == to_string(seconds \div seconds_a_day)

RECURSIVE trim_start(_)
trim_start(s) ==
    IF Len(s) > 0 /\ is_whitespace(s[1]) THEN trim_start(Tail(s)) ELSE s

\* str::trim, as Machine::ssh_exec applies it to the standard output
trim(s) == trim_end(trim_start(s))

\* 'echo version >> path': the line is added at the end of the file, which
\* is made when it is not there
echo_append(r, version) ==
    [is_file |-> TRUE, content |-> r.content \o version \o <<"\n">>]

\* Machine::is_valid_cache_image on the remote machine r at the version
\* now, when the commands of `fails` fail: [result, remote, recorded,
\* failed], failed telling that one of the commands that ran did fail
is_valid_cache_image(r, now, fails) ==
    IF "echo_dir" \in fails \/ "now" \in fails
    THEN [result |-> "Err", remote |-> r, recorded |-> FALSE, failed |-> TRUE]
    ELSE IF ~(r.is_file /\ "test" \notin fails)
    THEN IF "mkdir" \in fails \/ "echo" \in fails
         THEN [result |-> "Err", remote |-> r, recorded |-> FALSE,
               failed |-> TRUE]
         ELSE [result |-> "Ok(false)", remote |-> echo_append(r, now),
               recorded |-> TRUE, failed |-> "test" \in fails]
    ELSE IF "cat" \in fails
    THEN [result |-> "Err", remote |-> r, recorded |-> FALSE, failed |-> TRUE]
    ELSE IF trim(r.content) = now
    THEN [result |-> "Ok(true)", remote |-> r, recorded |-> FALSE,
          failed |-> FALSE]
    ELSE IF "echo" \in fails
    THEN [result |-> "Err", remote |-> r, recorded |-> FALSE, failed |-> TRUE]
    ELSE [result |-> "Ok(false)", remote |-> echo_append(r, now),
          recorded |-> TRUE, failed |-> FALSE]

\* an error of the cache check counts as a valid cache
unwrap_or_true(result) == result # "Ok(false)"

\* start_runner: .unwrap_or_else(|err| { warn!(..); false })
unwrap_or_false(result) == result = "Ok(true)"

InitRunner ==
    /\ env \in Envs
    /\ files = Files
    /\ yaml = [status |-> "ok", cause |-> "",
               config |-> Config("Info", ValidGithub, NoDefaults, <<>>)]
    /\ config_file = ConfigFile
    /\ config_dir = Empty
    /\ pc = "Runner"
    /\ machine_defaults = NoDefaults
    /\ github = ValidGithub
    /\ id_generator = [id_set |-> {}, next_id |-> 1]
    /\ out = <<>>
    /\ origin = <<>>
    /\ error = NoError
    /\ reads = <<>>
    /\ input = Empty
    /\ output = NoOutput
    /\ previous = NoResult
    /\ NothingShown
    /\ NoRunner

\* the clock goes on by half a day
tick ==
    /\ clock + seconds_a_day \div 2 <= MaxDays * seconds_a_day
    /\ clock' = clock + seconds_a_day \div 2
    /\ UNCHANGED <<env, files, yaml, config_file, config_dir, pc,
                   machine_defaults, github, id_generator, out, origin, error,
                   reads, input, output, previous, shown, rendered, remote,
                   runner>>

\* Machine::start_runner is called and connects, or fails to
start_runner ==
    /\ runner.pc \in {"Idle", "Started", "Failed"}
    /\ Len(remote.content) < 2 * MaxLines
    /\ \E connected \in BOOLEAN :
          runner' = [runner EXCEPT
                       !.pc = IF connected THEN "Connected" ELSE "Failed",
                       !.is_valid = "None",
                       !.log = <<>>]
    /\ UNCHANGED <<env, files, yaml, config_file, config_dir, pc,
                   machine_defaults, github, id_generator, out, origin, error,
                   reads, input, output, previous, shown, rendered, clock,
                   remote>>

\* start_runner: Self::is_valid_cache_image(..), of which any command may
\* fail
check_cache ==
    /\ runner.pc = "Connected"
    /\ \E fail \in Commands \cup {"none"} :
          /\ remote' = is_valid_cache_image(remote, now_cache_version(clock),
                                            {fail}).remote
          /\ runner' = [runner EXCEPT
                 !.pc = "Checked",
                 !.is_valid = is_valid_cache_image(
                     remote, now_cache_version(clock), {fail}).result,
                 !.recorded = is_valid_cache_image(
                     remote, now_cache_version(clock), {fail}).recorded,
                 !.failed = is_valid_cache_image(
                     remote, now_cache_version(clock), {fail}).failed,
                 !.version = now_cache_version(clock)]
    /\ UNCHANGED <<env, files, yaml, config_file, config_dir, pc,
                   machine_defaults, github, id_generator, out, origin, error,
                   reads, input, output, previous, shown, rendered, clock>>

\* start_runner: 'docker image pull', unless the cache is valid
pull_image ==
    /\ runner.pc = "Checked"
    /\ IF unwrap_or_false(runner.is_valid)
       THEN runner' = [runner EXCEPT !.pc = "Pulled"]
       ELSE \E ok \in BOOLEAN :
              runner' = [runner EXCEPT
                           !.pc = IF ok THEN "Pulled" ELSE "Failed",
                           !.log = IF ok THEN Append(@, "pull") ELSE @]
    /\ UNCHANGED <<env, files, yaml, config_file, config_dir, pc,
                   machine_defaults, github, id_generator, out, origin, error,
                   reads, input, output, previous, shown, rendered, clock,
                   remote>>

\* start_runner: 'docker container run'
run_container ==
    /\ runner.pc = "Pulled"
    /\ \E ok \in BOOLEAN :
          runner' = [runner EXCEPT
                       !.pc = IF ok THEN "Created" ELSE "Failed",
                       !.log = IF ok THEN Append(@, "run") ELSE @]
    /\ UNCHANGED <<env, files, yaml, config_file, config_dir, pc,
                   machine_defaults, github, id_generator, out, origin, error,
                   reads, input, output, previous, shown, rendered, clock,
                   remote>>

\* start_runner: 'docker container rename', then Ok(())
rename_container ==
    /\ runner.pc = "Created"
    /\ \E ok \in BOOLEAN :
          runner' = [runner EXCEPT
                       !.pc = IF ok THEN "Started" ELSE "Failed",
                       !.log = IF ok THEN Append(@, "rename") ELSE @]
    /\ UNCHANGED <<env, files, yaml, config_file, config_dir, pc,
                   machine_defaults, github, id_generator, out, origin, error,
                   reads, input, output, previous, shown, rendered, clock,
                   remote>>

NextRunner ==
    \/ tick
    \/ start_runner
    \/ check_cache
    \/ pull_image
    \/ run_container
    \/ rename_container

SpecRunner == InitRunner /\ [][NextRunner]_vars

----------------------------------------------------------------------------
(* impl Debug for GithubConfig and for SshConfig. A text is a sequence of  *)
(* the characters of the values and of the pieces the formatter writes     *)
(* whole: the names of the structs and of the fields, the punctuation and  *)
(* the marker of mask_credential.                                          *)

\* write_masked_credential_with_preview in the place of mask_credential:
\* the first eight characters of a long secret are written
mask_credential_with_preview(value) ==
    IF is_empty(value) THEN <<"[UNSPECIFIED]">>
    ELSE IF Len(value) < 8 THEN <<"[REDACTED]">>
    ELSE SubSeq(value, 1, 8)

\* mask_credential: the &str that is written in the place of the secret
mask_credential(value) == IF is_empty(value) THEN Empty ELSE <<"[REDACTED]">>

\* char::escape_debug, as <str as Debug>::fmt applies it
escape_debug(c) ==
    IF c = "\"" THEN <<"\\", "\"">>
    ELSE IF c = "\\" THEN <<"\\", "\\">>
    ELSE IF c = "\n" THEN <<"\\", "n">>
    ELSE IF c = "\t" THEN <<"\\", "t">>
    ELSE <<c>>

RECURSIVE escape_all(_)
escape_all(s) ==
    IF s = <<>> THEN <<>> ELSE escape_debug(s[1]) \o escape_all(Tail(s))

\* <str as Debug>::fmt: the string between double quotes, escaped
str_fmt(s) == <<"\"">> \o escape_all(s) \o <<"\"">>

\* DebugStruct::field for the fields from the k-th on: 'name: value', with
\* ', ' between two fields
RECURSIVE debug_fields(_, _)
debug_fields(fields, k) ==
    IF k > Len(fields) THEN <<>>
    ELSE (IF k > 1 THEN <<", ">> ELSE <<>>)
           \o <<fields[k][1], ": ">> \o fields[k][2]
           \o debug_fields(fields, k + 1)

\* Formatter::debug_struct(name) ... finish()
debug_struct(name, fields) ==
    <<name, " { ">> \o debug_fields(fields, 1) \o <<" }">>

\* #[derive(Debug)] of GithubRunnerConfig
GithubRunnerConfig_fmt(r) ==
    debug_struct("GithubRunnerConfig",
                 << <<"name_prefix", str_fmt(r.name_prefix)>>,
                    <<"scope", str_fmt(r.scope)>>,
                    <<"repo_url", str_fmt(r.repo_url)>> >>)

\* impl Debug for GithubConfig
GithubConfig_fmt(c) ==
    debug_struct("GithubConfig",
                 << <<"personal_access_token",
                      str_fmt(mask_credential(c.personal_access_token))>>,
                    <<"runners", GithubRunnerConfig_fmt(c.runners)>> >>)

\* impl Debug for SshConfig
SshConfig_fmt(c) ==
    debug_struct("SshConfig",
                 << <<"host", str_fmt(c.host)>>,
                    <<"port", to_string(c.port)>>,
                    <<"fingerprint", str_fmt(c.fingerprint)>>,
                    <<"username", str_fmt(c.username)>>,
                    <<"password", str_fmt(mask_credential(c.password))>>,
                    <<"private_key", str_fmt(mask_credential(c.private_key))>>,
                    <<"private_key_passphrase",
                      str_fmt(mask_credential(c.private_key_passphrase))>> >>)

\* Debug::fmt of the value: an SshConfig has a host, a GithubConfig none
Debug_fmt(v) ==
    IF "host" \in DOMAIN v THEN SshConfig_fmt(v) ELSE GithubConfig_fmt(v)

\* the secrets of the values: none, short ones, and long ones that differ
\* from their first character on
SecretValues ==
    {Empty, <<"s">>, <<"p", "w">>,
     <<"p", "a", "s", "s", "w", "o", "r", "d", "1">>,
     <<"t", "o", "k", "e", "n", "2", "t", "o", "k", "e", "n">>}

\* the values handed to Debug::fmt
DebugValues ==
    { GithubConfig(s, p, <<"r", "e", "p", "o">>, <<"h", "\"">>) :
        s \in SecretValues, p \in {<<"r">>, <<"\\", "\n">>} }
      \cup
    { SshConfig(<<"h">>, n, f, <<"u">>, s[1], s[2], s[3]) :
        n \in {0, 22}, f \in {Empty, <<"f", "\t">>},
        s \in SecretValues \X SecretValues \X SecretValues }

InitDebug ==
    /\ env \in Envs
    /\ files = Files
    /\ yaml = [status |-> "ok", cause |-> "",
               config |-> Config("Info", ValidGithub, NoDefaults, <<>>)]
    /\ config_file = ConfigFile
    /\ config_dir = Empty
    /\ pc = "Debug"
    /\ machine_defaults = NoDefaults
    /\ github = ValidGithub
    /\ id_generator = [id_set |-> {}, next_id |-> 1]
    /\ out = <<>>
    /\ origin = <<>>
    /\ error = NoError
    /\ reads = <<>>
    /\ input = Empty
    /\ output = NoOutput
    /\ previous = NoResult
    /\ shown \in DebugValues
    /\ rendered = <<>>
    /\ NoRunner

\* format!("{:?}", value) of one GithubConfig or SshConfig
fmt ==
    /\ pc = "Debug"
    /\ pc' = "Shown"
    /\ rendered' = Debug_fmt(shown)
    /\ UNCHANGED <<env, files, yaml, config_file, config_dir,
                   machine_defaults, github, id_generator, out, origin, error,
                   reads, input, output, previous, shown, clock, remote,
                   runner>>

NextDebug == fmt

SpecDebug == InitDebug /\ [][NextDebug]_vars

----------------------------------------------------------------------------
(* What the claims speak of.                                               *)

\* the machine of the document that out[k] was resolved from
Raw(k) == yaml.config.machines[origin[k]]

\* the directory ${file:...} is read from
Dir == config_dir_of(config_file)

\* the value one call of resolve gives for s
Substituted(s) == resolve(Dir, s).value

\* one call of resolve on s succeeds
Resolvable(s) == resolve(Dir, s).err.kind = "None"

\* one call of resolve on s succeeds and gives v
OnePass(s, v) == Resolvable(s) /\ Substituted(s) = v

\* the field of the document a merged value comes from: the machine's own
\* when it is not empty, else that of machine_defaults
Inherited(own, default) == IF is_empty(own) THEN default ELSE own

\* the credentials of the document the merged ones come from:
\* <<password, private_key, private_key_passphrase>>
RawCredentials(c, d) ==
    IF ~is_empty(c.private_key)
    THEN <<Empty, c.private_key, c.private_key_passphrase>>
    ELSE IF ~is_empty(c.password) THEN <<c.password, Empty, Empty>>
    ELSE IF ~is_empty(machine_defaults.ssh.private_key)
    THEN <<Empty, d.private_key, d.private_key_passphrase>>
    ELSE <<d.password, Empty, Empty>>

\* the first error of two calls made one after the other
FirstError(a, b) == IF a.err.kind # "None" THEN a.err ELSE b.err

\* what two calls of resolve give for a string made of the input of the
\* first, the text `between` and the input of the second
Joined(a, between, b) ==
    [err |-> FirstError(a, b),
     value |-> IF FirstError(a, b).kind = "None"
               THEN a.value \o between \o b.value ELSE Empty,
     reads |-> a.reads \o b.reads]

\* s is written with whole segments only: text, '$$' and '${name}'
RECURSIVE WholeSegments(_)
WholeSegments(s) ==
    IF s = <<>> THEN TRUE
    ELSE IF s[1] # "$" THEN WholeSegments(Tail(s))
    ELSE IF Len(s) = 1 THEN FALSE
    ELSE IF s[2] = "$" THEN WholeSegments(SubSeq(s, 3, Len(s)))
    ELSE IF s[2] = "{"
    THEN /\ FindClose(s, 3) > 3
         /\ WholeSegments(SubSeq(s, FindClose(s, 3) + 1, Len(s)))
    ELSE WholeSegments(Tail(s))

----------------------------------------------------------------------------
(* The claims.                                                             *)

\* C1: every string field of the resolved configuration is the result of
\* exactly one substitution pass over the value of the document it came
\* from: the fields of github and of machine_defaults, the id (when it is
\* not generated) and the fingerprint of a machine, and its host, username, password, private_key
\* and private_key_passphrase, its own or inherited from machine_defaults.
C1_SinglePass ==
    pc = "Done" =>
        /\ OnePass(yaml.config.github.personal_access_token,
                   github.personal_access_token)
        /\ OnePass(yaml.config.github.runners.repo_url,
                   github.runners.repo_url)
        /\ OnePass(yaml.config.machine_defaults.ssh.host,
                   machine_defaults.ssh.host)
        /\ OnePass(yaml.config.machine_defaults.ssh.password,
                   machine_defaults.ssh.password)
        /\ \A k \in 1..Len(out) :
             /\ is_empty(Substituted(Raw(k).id))
                  \/ OnePass(Raw(k).id, out[k].id)
             /\ OnePass(Raw(k).ssh.fingerprint, out[k].ssh.fingerprint)
             /\ OnePass(Inherited(Raw(k).ssh.host,
                                  yaml.config.machine_defaults.ssh.host),
                        out[k].ssh.host)
             /\ OnePass(Inherited(Raw(k).ssh.username,
                                  yaml.config.machine_defaults.ssh.username),
                        out[k].ssh.username)
             /\ \A f \in 1..3 :
                  OnePass(RawCredentials(Raw(k).ssh,
                                         yaml.config.machine_defaults.ssh)[f],
                          <<out[k].ssh.password, out[k].ssh.private_key,
                            out[k].ssh.private_key_passphrase>>[f])

\* C2: resolve replaces '$$' by one literal '$', also next to other tokens:
\* a string written as whole segments, then '$$', then any text resolves to
\* what the two parts resolve to with '$' between them, and looks up only
\* what the two parts look up; text without '$' is copied and looks up
\* nothing; so '$${E}' gives '${E}' and E is not looked up, set or not.
C2_EscapeIsLiteral ==
    pc = "Resolved" =>
        /\ \A k \in 1..(Len(input) - 1) :
             ( /\ input[k] = "$"
               /\ input[k + 1] = "$"
               /\ WholeSegments(SubSeq(input, 1, k - 1)) )
             => output = Joined(resolve(config_dir, SubSeq(input, 1, k - 1)),
                                <<"$">>,
                                resolve(config_dir,
                                        SubSeq(input, k + 2, Len(input))))
        /\ (\A k \in 1..Len(input) : input[k] # "$")
             => output = [err |-> NoError, value |-> input, reads |-> <<>>]
        /\ input = <<"$", "$", "{", "E", "}">>
             => output = [err |-> NoError, value |-> <<"$", "{", "E", "}">>,
                          reads |-> <<>>]

\* C2 happens: '$${E}' was resolved to '${E}' while E is not set
C2_Witness ==
    /\ pc = "Resolved"
    /\ input = <<"$", "$", "{", "E", "}">>
    /\ <<"E">> \notin DOMAIN env
    /\ output.value = <<"$", "{", "E", "}">>
    /\ output.reads = <<>>

\* C3: no two machines of a resolved configuration have the same id.
C3_UniqueIds ==
    pc = "Done" =>
        \A i, j \in 1..Len(out) : i # j => out[i].id # out[j].id

\* two machines of the document have the same non-empty id after the
\* substitution
SameIdAfterSubstitution(i, j) ==
    /\ i # j
    /\ Resolvable(yaml.config.machines[i].id)
    /\ Resolvable(yaml.config.machines[j].id)
    /\ ~is_empty(Substituted(yaml.config.machines[i].id))
    /\ Substituted(yaml.config.machines[i].id)
         = Substituted(yaml.config.machines[j].id)

\* C4: when two machines have the same non-empty id after substitution, the
\* scan that precedes the machines fails, so that no machine is resolved,
\* and the ValidationFailure names that id.
C4_DuplicateIdRejected ==
    \A i, j \in 1..Len(yaml.config.machines) :
        SameIdAfterSubstitution(i, j) =>
            /\ pc \notin {"Machines", "Done"}
            /\ error.message = "A duplicate machine ID '{}' was found."
                 => error.arg = Substituted(yaml.config.machines[i].id)

\* the ids the machines of the document claim after the substitution
ExplicitIds ==
    { Substituted(yaml.config.machines[i].id) :
        i \in {m \in 1..Len(yaml.config.machines) :
                 Resolvable(yaml.config.machines[m].id)} }

\* the least n from 1 on with machine-<n> not in taken; there is one among
\* the first Cardinality(taken) + 1
LeastFree(taken) ==
    CHOOSE n \in 1..(Cardinality(taken) + 1) :
        /\ machine_id_of(n) \notin taken
        /\ \A m \in 1..(n - 1) : machine_id_of(m) \in taken

\* the ids given to the machines before the k-th of the document
GivenBefore(k) == { out[i].id : i \in {m \in 1..Len(out) : origin[m] < k} }

\* C5: a machine whose id is empty after substitution gets machine-<n> with
\* n the least number from 1 on that no explicit id of the document and no
\* machine before it has.
C5_GeneratedIds ==
    pc = "Done" =>
        \A k \in 1..Len(out) :
            is_empty(Substituted(Raw(k).id)) =>
                out[k].id = machine_id_of(
                    LeastFree(ExplicitIds \cup GivenBefore(origin[k])))

\* C6: the credentials of a resolved machine come from the machine's private
\* key (with its passphrase) when it has one, else from the machine's
\* password, else from the private key of machine_defaults (with its
\* passphrase) when there is one, else from the password of
\* machine_defaults; what was not chosen is empty.
C6_AuthPrecedence ==
    pc = "Done" =>
        \A k \in 1..Len(out) :
            LET c == Raw(k).ssh
                d == machine_defaults.ssh
                m == out[k].ssh IN
            /\ ~is_empty(c.private_key) =>
                 /\ is_empty(m.password)
                 /\ ~is_empty(m.private_key)
                 /\ m.private_key = Substituted(c.private_key)
                 /\ m.private_key_passphrase
                      = Substituted(c.private_key_passphrase)
            /\ (is_empty(c.private_key) /\ ~is_empty(c.password)) =>
                 /\ m.password = Substituted(c.password)
                 /\ ~is_empty(m.password)
                 /\ is_empty(m.private_key)
                 /\ is_empty(m.private_key_passphrase)
            /\ ( /\ is_empty(c.private_key)
                 /\ is_empty(c.password)
                 /\ ~is_empty(d.private_key) ) =>
                 /\ is_empty(m.password)
                 /\ ~is_empty(m.private_key)
                 /\ m.private_key = Substituted(d.private_key)
                 /\ m.private_key_passphrase
                      = Substituted(d.private_key_passphrase)
            /\ ( /\ is_empty(c.private_key)
                 /\ is_empty(c.password)
                 /\ is_empty(d.private_key) ) =>
                 /\ m.password = Substituted(d.password)
                 /\ ~is_empty(m.password)
                 /\ is_empty(m.private_key)
                 /\ is_empty(m.private_key_passphrase)

\* C6 happens: a machine with a private key and a password of its own, and
\* both in machine_defaults too, was resolved to its own private key
C6_Witness ==
    /\ pc = "Done"
    /\ \E k \in 1..Len(out) :
         /\ ~is_empty(Raw(k).ssh.private_key)
         /\ ~is_empty(Raw(k).ssh.password)
         /\ ~is_empty(machine_defaults.ssh.private_key)
         /\ ~is_empty(machine_defaults.ssh.password)
         /\ machine_defaults.ssh.private_key # Raw(k).ssh.private_key
         /\ out[k].ssh.private_key = Raw(k).ssh.private_key
         /\ is_empty(out[k].ssh.password)

\* C7: every machine of a resolved configuration has a host, a username and
\* a password or a private key, none of them empty.
C7_MachineComplete ==
    pc = "Done" =>
        \A k \in 1..Len(out) :
            /\ ~is_empty(out[k].ssh.host)
            /\ ~is_empty(out[k].ssh.username)
            /\ ~is_empty(out[k].ssh.password)
                 \/ ~is_empty(out[k].ssh.private_key)

\* the machine the loop of resolve_machine_configs resolves next
NextMachine == yaml.config.machines[Len(out) + 1]

\* the loop has a machine left and gives it an id
NextHasId ==
    /\ pc = "Machines"
    /\ Len(out) < Len(yaml.config.machines)
    /\ generate(config_dir, id_generator, NextMachine).err.kind = "None"

\* the id the loop gives to the next machine
NextId == generate(config_dir, id_generator, NextMachine).id

\* C8: host and username of a resolved machine are the machine's own value
\* when it has one, else the value of machine_defaults, and one of the two
\* is there; when neither is, the merge fails with a ValidationFailure that
\* names the machine and the field (host first, username when the fields
\* before it were resolved), and no user name is made up.
C8_HostAndUsername ==
    /\ [](pc = "Done" =>
            \A k \in 1..Len(out) :
                LET c == Raw(k).ssh
                    d == machine_defaults.ssh
                    m == out[k].ssh IN
                /\ ~is_empty(Inherited(c.host, d.host))
                /\ m.host = Substituted(Inherited(c.host, d.host))
                /\ ~is_empty(Inherited(c.username, d.username))
                /\ m.username = Substituted(Inherited(c.username, d.username)))
    /\ [][ NextHasId =>
             LET c == NextMachine.ssh
                 d == machine_defaults.ssh IN
             /\ is_empty(Inherited(c.host, d.host)) =>
                  /\ pc' = "Failed"
                  /\ error' = ValidationFailure(
                         "'host' must be specified for machine '{}'.", NextId)
             /\ ( /\ Resolvable(Inherited(c.host, d.host))
                  /\ ~is_empty(Inherited(c.host, d.host))
                  /\ Resolvable(c.fingerprint)
                  /\ is_empty(Inherited(c.username, d.username)) ) =>
                  /\ pc' = "Failed"
                  /\ error' = ValidationFailure(
                         "'username' must be specified for machine '{}'.",
                         NextId) ]_vars

\* C8 happens: a machine without a host of its own was resolved to the host
\* of machine_defaults and to its own username
C8_Witness ==
    /\ pc = "Done"
    /\ \E k \in 1..Len(out) :
         /\ is_empty(Raw(k).ssh.host)
         /\ out[k].ssh.host = <<"h">>
         /\ machine_defaults.ssh.host = <<"h">>
         /\ ~is_empty(machine_defaults.ssh.username)
         /\ out[k].ssh.username = <<"u">>
         /\ Raw(k).ssh.username = <<"u">>
         /\ machine_defaults.ssh.username # <<"u">>

\* the six string fields of the next machine, as resolve_ssh_config
\* resolves them: host, fingerprint, username, password, private_key,
\* private_key_passphrase
NextFields ==
    Resolved(config_dir,
             ssh_fields(NextId, machine_defaults.ssh, NextMachine.ssh,
                        password_or_private_key(machine_defaults.ssh,
                                                NextMachine.ssh)))

\* C9: no resolved machine has both password and private key empty; when
\* the fields of a machine are resolved and the chosen password and private
\* key are both empty, the merge fails with the ValidationFailure that
\* names the machine, and the machine is not added.
C9_CredentialRequired ==
    /\ [](pc = "Done" =>
            \A k \in 1..Len(out) :
                ~is_empty(out[k].ssh.password)
                    \/ ~is_empty(out[k].ssh.private_key))
    /\ [][ ( /\ NextHasId
             /\ NextFields.err.kind = "None"
             /\ is_empty(NextFields.values[4])
             /\ is_empty(NextFields.values[5]) ) =>
             /\ pc' = "Failed"
             /\ out' = out
             /\ error' = ValidationFailure(
                    "'password' or 'private_key' must be specified for machine '{}'.",
                    NextId) ]_vars

\* C9 happens: the second machine of a document has no credentials, nor has
\* machine_defaults, and the run failed naming machine-2
C9_Witness ==
    /\ pc = "Failed"
    /\ Len(out) = 1
    /\ Len(yaml.config.machines) = 2
    /\ is_empty(yaml.config.machines[2].ssh.password)
    /\ is_empty(yaml.config.machines[2].ssh.private_key)
    /\ is_empty(machine_defaults.ssh.password)
    /\ is_empty(machine_defaults.ssh.private_key)
    /\ error = ValidationFailure(
           "'password' or 'private_key' must be specified for machine '{}'.",
           machine_id_of(2))

\* C10: the port of a resolved machine is the machine's own when it is not
\* 0, else that of machine_defaults when it is not 0, else 22; it is never 0.
C10_Port ==
    pc = "Done" =>
        \A k \in 1..Len(out) :
            /\ out[k].ssh.port # 0
            /\ out[k].ssh.port =
                 IF Raw(k).ssh.port # 0 THEN Raw(k).ssh.port
                 ELSE IF yaml.config.machine_defaults.ssh.port # 0
                 THEN yaml.config.machine_defaults.ssh.port
                 ELSE 22

\* C10 happens: a machine without a port was resolved to the port of
\* machine_defaults
C10_Witness ==
    /\ pc = "Done"
    /\ \E k \in 1..Len(out) :
         /\ Raw(k).ssh.port = 0
         /\ yaml.config.machine_defaults.ssh.port = 2222
         /\ out[k].ssh.port = 2222

\* the orchestrator is past the resolution of machine_defaults
DefaultsDone == pc \in {"DefaultsResolved", "GithubResolved", "Machines", "Done"}

\* C11: runners.max of a resolved machine is the machine's own when it is
\* not 0, else that of machine_defaults when it is not 0, else 16; it is
\* never 0; the resolved machine_defaults keeps the max of the document,
\* 0 included.
C11_RunnersMax ==
    /\ \A k \in 1..Len(out) :
         /\ out[k].runners.max # 0
         /\ out[k].runners.max =
              IF Raw(k).runners.max # 0 THEN Raw(k).runners.max
              ELSE IF yaml.config.machine_defaults.runners.max # 0
              THEN yaml.config.machine_defaults.runners.max
              ELSE 16
    /\ DefaultsDone =>
         machine_defaults.runners.max = yaml.config.machine_defaults.runners.max

\* C11 happens: a machine without a max was resolved to the max of
\* machine_defaults
C11_Witness ==
    /\ pc = "Done"
    /\ \E k \in 1..Len(out) :
         /\ Raw(k).runners.max = 0
         /\ yaml.config.machine_defaults.runners.max = 1
         /\ machine_defaults.runners.max = 1
         /\ out[k].runners.max = 1

\* the string fields of machine_defaults.ssh that are resolved can all be
\* resolved
DefaultsResolvable ==
    /\ Resolvable(yaml.config.machine_defaults.ssh.host)
    /\ Resolvable(yaml.config.machine_defaults.ssh.username)
    /\ Resolvable(yaml.config.machine_defaults.ssh.password)
    /\ Resolvable(yaml.config.machine_defaults.ssh.private_key)
    /\ Resolvable(yaml.config.machine_defaults.ssh.private_key_passphrase)

\* C12: the fingerprint of a resolved machine is its own one, resolved,
\* whatever machine_defaults says; the fingerprint of the resolved
\* machine_defaults is empty, and one written there, resolvable or not,
\* does not make the resolution of machine_defaults fail.
C12_Fingerprint ==
    /\ \A k \in 1..Len(out) :
         OnePass(Raw(k).ssh.fingerprint, out[k].ssh.fingerprint)
    /\ is_empty(machine_defaults.ssh.fingerprint)
    /\ ( /\ yaml.status = "ok"
         /\ pc \notin {"Start", "Loaded"}
         /\ DefaultsResolvable ) =>
         machine_defaults =
             MachineDefaultsConfig(
                 SshConfig(Substituted(yaml.config.machine_defaults.ssh.host),
                     yaml.config.machine_defaults.ssh.port,
                     Empty,
                     Substituted(yaml.config.machine_defaults.ssh.username),
                     Substituted(yaml.config.machine_defaults.ssh.password),
                     Substituted(yaml.config.machine_defaults.ssh.private_key),
                     Substituted(
                         yaml.config.machine_defaults.ssh.private_key_passphrase)),
                 RunnersConfig(yaml.config.machine_defaults.runners.max))

\* C12 happens: machine_defaults has a fingerprint, the machine has none,
\* and the machine was resolved without one
C12_Witness ==
    /\ pc = "Done"
    /\ ~is_empty(yaml.config.machine_defaults.ssh.fingerprint)
    /\ yaml.config.machine_defaults.ssh.port = 2222
    /\ machine_defaults.ssh.port = 2222
    /\ \E k \in 1..Len(out) :
         /\ is_empty(Raw(k).ssh.fingerprint)
         /\ is_empty(out[k].ssh.fingerprint)

\* the orchestrator is past the resolution of the GitHub block
GithubDone == pc \in {"GithubResolved", "Machines", "Done"}

\* the four strings of the GitHub block can all be resolved
GithubResolvable ==
    /\ Resolvable(yaml.config.github.personal_access_token)
    /\ Resolvable(yaml.config.github.runners.name_prefix)
    /\ Resolvable(yaml.config.github.runners.scope)
    /\ Resolvable(yaml.config.github.runners.repo_url)

\* the GitHub block of the document after one substitution pass
SubstitutedGithub ==
    GithubConfig(Substituted(yaml.config.github.personal_access_token),
                 Substituted(yaml.config.github.runners.name_prefix),
                 Substituted(yaml.config.github.runners.scope),
                 Substituted(yaml.config.github.runners.repo_url))

TokenPrefix == <<"g", "h", "p", "_">>

IsHttpUrl(url) ==
    \/ starts_with(url, <<"h", "t", "t", "p", ":", "/", "/">>)
    \/ starts_with(url, <<"h", "t", "t", "p", "s", ":", "/", "/">>)

\* C13: once the GitHub block is resolved, and so in every resolved
\* configuration, it holds the values of the document after substitution,
\* and of these the token is not empty and starts with 'ghp_', the name
\* prefix is not empty, the scope is 'repo', and the repository URL is not
\* empty and starts with 'http://' or 'https://'.
C13_GithubValid ==
    GithubDone =>
        /\ GithubResolvable
        /\ github = SubstitutedGithub
        /\ ~is_empty(github.personal_access_token)
        /\ starts_with(github.personal_access_token, TokenPrefix)
        /\ ~is_empty(github.runners.name_prefix)
        /\ github.runners.scope = <<"r", "e", "p", "o">>
        /\ ~is_empty(github.runners.repo_url)
        /\ IsHttpUrl(github.runners.repo_url)

\* C13 happens: a token and a scope that are not valid as written but are
\* after substitution were accepted
C13_Witness ==
    /\ pc = "Done"
    /\ yaml.config.github.personal_access_token = EnvZ \o TokenPrefix \o <<"t">>
    /\ yaml.config.github.runners.scope = EnvZ \o <<"r", "e", "p", "o">>
    /\ github.personal_access_token = TokenPrefix \o <<"t">>
    /\ github.runners.scope = <<"r", "e", "p", "o">>

\* the resolution of the GitHub block was reached and all its strings were
\* resolved, so that the validation was run
GithubValidated ==
    /\ yaml.status = "ok"
    /\ DefaultsResolvable
    /\ GithubResolvable
    /\ pc \notin {"Start", "Loaded", "DefaultsResolved"}

\* C14: a GitHub block that breaks a check fails with the ValidationFailure
\* of the first check it breaks, in the order: token empty, token without
\* 'ghp_', name prefix empty, scope other than 'repo' (the message carries
\* the scope), repository URL empty, repository URL without http(s) (the
\* message carries the URL).
C14_GithubMessages ==
    GithubValidated =>
        LET g == SubstitutedGithub
            token_ok == /\ ~is_empty(g.personal_access_token)
                        /\ starts_with(g.personal_access_token, TokenPrefix)
            prefix_ok == ~is_empty(g.runners.name_prefix)
            scope_ok == g.runners.scope = <<"r", "e", "p", "o">> IN
        /\ is_empty(g.personal_access_token) =>
             /\ pc = "Failed"
             /\ error = ValidationFailure("An empty or missing value in 'github.personal_access_token'. A GitHub personal access token must start with 'ghp_'.", Empty)
        /\ ( /\ ~is_empty(g.personal_access_token)
             /\ ~starts_with(g.personal_access_token, TokenPrefix) ) =>
             /\ pc = "Failed"
             /\ error = ValidationFailure("An invalid value in 'github.personal_access_token'. A GitHub personal access token must start with 'ghp_'.", Empty)
        /\ (token_ok /\ ~prefix_ok) =>
             /\ pc = "Failed"
             /\ error = ValidationFailure("An empty value in 'github.runners.name_prefix'.", Empty)
        /\ (token_ok /\ prefix_ok /\ ~scope_ok) =>
             /\ pc = "Failed"
             /\ error = ValidationFailure("An unsupported value '{}' in 'github.runners.scope'. 'repo' is the only supported value at the moment.", g.runners.scope)
        /\ ( /\ token_ok /\ prefix_ok /\ scope_ok
             /\ is_empty(g.runners.repo_url) ) =>
             /\ pc = "Failed"
             /\ error = ValidationFailure("An empty or missing URL in 'github.runners.repo_url'.", Empty)
        /\ ( /\ token_ok /\ prefix_ok /\ scope_ok
             /\ ~is_empty(g.runners.repo_url)
             /\ ~IsHttpUrl(g.runners.repo_url) ) =>
             /\ pc = "Failed"
             /\ error = ValidationFailure("An invalid URL '{}' in github.runners.repo_url.", g.runners.repo_url)

\* C14 happens: the name prefix is empty, the scope is 'org' and the URL is
\* an ftp one, and the failure is that of the name prefix
C14_Witness ==
    /\ pc = "Failed"
    /\ GithubValidated
    /\ SubstitutedGithub.personal_access_token = TokenPrefix \o <<"t">>
    /\ is_empty(SubstitutedGithub.runners.name_prefix)
    /\ SubstitutedGithub.runners.scope = <<"o", "r", "g">>
    /\ SubstitutedGithub.runners.repo_url = <<"f", "t", "p", ":", "/", "/", "x">>
    /\ error = ValidationFailure("An empty value in 'github.runners.name_prefix'.", Empty)

\* the error of the GitHub block of the document, NoError when it is well
\* formed
GithubError == resolve_github_config(Dir, yaml.config.github).err

\* the error of machine_defaults of the document, NoError when there is none
DefaultsError ==
    resolve_machine_defaults_config(Dir, yaml.config.machine_defaults).err

\* C15: when the GitHub block of a document that was read is malformed,
\* the machine list is never processed (no id generator is made, no
\* machine is resolved, the empty list is not looked at), and once
\* machine_defaults is resolved the run fails with the error of the GitHub
\* block, whatever is wrong with the machines.
C15_GithubBeforeMachines ==
    (yaml.status = "ok" /\ GithubError.kind # "None") =>
        /\ pc \notin {"GithubResolved", "Machines", "Done"}
        /\ out = <<>>
        /\ id_generator = [id_set |-> {}, next_id |-> 1]
        /\ (pc = "Failed" /\ DefaultsError.kind = "None") =>
             error = GithubError

\* C15 happens: the token is missing and two machines have the same id,
\* and the failure is that of the token
C15_Witness ==
    /\ pc = "Failed"
    /\ is_empty(yaml.config.github.personal_access_token)
    /\ Len(yaml.config.machines) = 2
    /\ yaml.config.machines[1].id = <<"a">>
    /\ yaml.config.machines[2].id = <<"a">>
    /\ error = ValidationFailure("An empty or missing value in 'github.personal_access_token'. A GitHub personal access token must start with 'ghp_'.", Empty)

\* C16: a document without machines whose machine_defaults and GitHub block
\* are in order ends in the ValidationFailure 'There must be at least one
\* machine in the configuration.'; a resolved configuration has at least
\* one machine, and exactly one for every machine of the document.
C16_AtLeastOneMachine ==
    /\ ( /\ yaml.status = "ok"
         /\ yaml.config.machines = <<>>
         /\ DefaultsError.kind = "None"
         /\ GithubError.kind = "None"
         /\ pc \in {"Done", "Failed"} ) =>
         /\ pc = "Failed"
         /\ error = ValidationFailure("There must be at least one machine in the configuration.", Empty)
    /\ pc = "Done" =>
         /\ out # <<>>
         /\ Len(out) = Len(yaml.config.machines)
         /\ Len(origin) = Len(out)
         /\ \A m \in 1..Len(yaml.config.machines) :
              Cardinality({k \in 1..Len(out) : origin[k] = m}) = 1

\* C16 happens: the run over a document without machines failed at the end
\* of resolve_machine_configs
C16_Witness ==
    /\ pc = "Failed"
    /\ yaml.status = "ok"
    /\ yaml.config.machines = <<>>
    /\ github = SubstitutedGithub
    /\ error = ValidationFailure("There must be at least one machine in the configuration.", Empty)

\* a is before b in the order of strings: at the first position where they
\* differ the byte of a is the smaller one, or a is a proper prefix of b
LexLess(a, b) ==
    \E k \in 1..Len(b) :
        /\ k <= Len(a) + 1
        /\ \A i \in 1..(k - 1) : a[i] = b[i]
        /\ k = Len(a) + 1 \/ Byte(a[k]) < Byte(b[k])

\* C17: the machines of a resolved configuration are in ascending order of
\* their ids as strings, whatever their order in the document, and
\* machines with the same id keep the order of the document.
C17_SortedById ==
    pc = "Done" =>
        \A i, j \in 1..Len(out) :
            i < j =>
                \/ LexLess(out[i].id, out[j].id)
                \/ out[i].id = out[j].id /\ origin[i] < origin[j]

\* C17 happens: three machines were resolved and the last of the document
\* is the first of the configuration
C17_Witness ==
    /\ pc = "Done"
    /\ Len(out) = 3
    /\ origin[1] = 3
    /\ out[1].id = <<"a">>
    /\ out[2].id = machine_id_of(1)
    /\ out[3].id = machine_id_of(2)

C19_AllOrNothing ==
    pc = "Resolved" =>
        /\ output.err.kind # "None" => output.value = Empty
        /\ \A k \in 0..Len(input) :
             WholeSegments(SubSeq(input, 1, k)) =>
                 /\ output.err =
                      FirstError(resolve(config_dir, SubSeq(input, 1, k)),
                                 resolve(config_dir,
                                         SubSeq(input, k + 1, Len(input))))
                 /\ ~Resolvable(SubSeq(input, 1, k)) =>
                      output.err = resolve(config_dir, SubSeq(input, 1, k)).err
                 /\ ~Resolvable(SubSeq(input, k + 1, Len(input))) =>
                      output.err.kind # "None"

\* C19 happens: a string with a file that is missing, then text, then a
\* variable that is not set, gave the error of the file
C19_Witness ==
    /\ pc = "Resolved"
    /\ input = FileQ \o <<"a">> \o EnvU
    /\ output.err = UnresolvedFileVariable(<<"d", "/", "q">>, "NotFound")
    /\ output.value = Empty
    /\ output.reads = << <<"file", <<"d", "/", "q">> >>, <<"env", <<"U">> >> >>

\* the first error of the steps before the loop over the machines: reading
\* and parsing, machine_defaults, the GitHub block, the scan of the ids;
\* NoError when none of them fails
StageError ==
    IF yaml.status = "unreadable" THEN ReadFailure(config_file, yaml.cause)
    ELSE IF yaml.status = "malformed" THEN ParseFailure(config_file, yaml.cause)
    ELSE IF DefaultsError.kind # "None" THEN DefaultsError
    ELSE IF GithubError.kind # "None" THEN GithubError
    ELSE MachineIdGenerator_new(yaml.config.machines).err

\* the state of the orchestrator: 1 Loaded, 2 DefaultsResolved (up to the
\* last machine), 3 MachinesResolved (every machine is resolved), 4 Done
Phase ==
    CASE pc = "Start" -> 0
      [] pc = "Loaded" -> 1
      [] pc \in {"DefaultsResolved", "GithubResolved"} -> 2
      [] pc = "Machines" /\ Len(out) < Len(yaml.config.machines) -> 2
      [] pc = "Machines" /\ Len(out) = Len(yaml.config.machines) -> 3
      [] pc = "Done" -> 4
      [] pc = "Failed" -> 5

\* what resolve_ssh_config gives for the next machine
NextSsh ==
    resolve_ssh_config(config_dir, NextId, machine_defaults.ssh,
                       NextMachine.ssh)

\* C20: the run goes through Loaded, DefaultsResolved, MachinesResolved and
\* Done in this order, one after the other, or fails; it fails with the
\* error of the first step that fails (reading and parsing, machine_defaults,
\* the GitHub block, the scan of the ids, then for each machine in the
\* order of the document its id and its SSH block, then the empty list),
\* nothing is done after a failure, and Done is reached only when no step
\* has failed.
C20_FirstErrorHalts ==
    /\ []( /\ (pc = "Failed") <=> (error # NoError)
           /\ StageError.kind # "None" =>
                /\ pc \notin {"Machines", "Done"}
                /\ out = <<>>
                /\ pc = "Failed" => error = StageError
           /\ pc = "Done" =>
                /\ StageError = NoError
                /\ Len(out) = Len(yaml.config.machines)
                /\ out # <<>> )
    /\ [][ /\ pc \notin {"Done", "Failed"}
           /\ pc' # "Failed" => Phase' = Phase + 1 \/ (Phase' = 2 /\ Phase = 2)
           /\ (pc = "Machines" /\ Len(out) < Len(yaml.config.machines)) =>
                IF ~NextHasId
                THEN /\ pc' = "Failed"
                     /\ out' = out
                     /\ error' = generate(config_dir, id_generator,
                                          NextMachine).err
                ELSE IF NextSsh.err.kind # "None"
                THEN /\ pc' = "Failed"
                     /\ out' = out
                     /\ error' = NextSsh.err
                ELSE /\ pc' = "Machines"
                     /\ Len(out') = Len(out) + 1
                     /\ SubSeq(out', 1, Len(out)) = out
                     /\ error' = NoError
           /\ (pc = "Machines" /\ Len(out) = Len(yaml.config.machines)) =>
                IF out = <<>>
                THEN pc' = "Failed" /\ error'.kind = "ValidationFailure"
                ELSE pc' = "Done" /\ error' = NoError ]_vars

\* C20 happens: the third machine of a document was the first thing to
\* fail, on a variable that is not set, after two machines were resolved
C20_Witness ==
    /\ pc = "Failed"
    /\ StageError = NoError
    /\ Len(yaml.config.machines) = 3
    /\ Len(out) = 2
    /\ error.kind = "UnresolvedEnvironmentVariable"

\* C21: a document that cannot be read fails with ReadFailure, one that is
\* read but malformed with ParseFailure; the error carries the path as the
\* caller gave it and the cause, and nothing was looked up in the
\* environment, no file of a token was read, nothing was resolved or
\* validated.
C21_LoadFailure ==
    yaml.status # "ok" =>
      /\ pc \in {"Start", "Failed"}
      /\ reads = <<>>
      /\ out = <<>>
      /\ config_dir = Empty
      /\ github = ValidGithub
      /\ machine_defaults = NoDefaults
      /\ pc = "Failed" =>
           /\ error.kind = (IF yaml.status = "unreadable" THEN "ReadFailure"
                                                          ELSE "ParseFailure")
           /\ error.arg = config_file
           /\ error.cause = yaml.cause
           /\ error.message = ""

\* C21 happens: the document at the relative path c could not be read
\* for want of permission, and the call has failed
C21_Witness ==
    /\ pc = "Failed"
    /\ yaml.status = "unreadable"
    /\ yaml.cause = "PermissionDenied"
    /\ config_file = <<"c">>
    /\ error.kind = "ReadFailure"

\* the first '${...}' of s is s[i..j], and no '$' stands before it
FirstTokenAt(s, i, j) ==
    /\ i + 3 <= j
    /\ j <= Len(s)
    /\ \A k \in 1..(i - 1) : s[k] # "$"
    /\ s[i] = "$"
    /\ s[i + 1] = "{"
    /\ \A k \in (i + 2)..(j - 1) : s[k] # "}"
    /\ s[j] = "}"

\* what stands between the braces names a file: 'file:' and a path
NamesFile(body) == Len(body) > 5 /\ SubSeq(body, 1, 5) = <<"f", "i", "l", "e", ":">>

\* the path of the file `path` names, seen from the directory dir
Beside(dir, path) ==
    IF path[1] = "/" THEN path
    ELSE IF dir[Len(dir)] = "/" THEN dir \o path
    ELSE dir \o <<"/">> \o path

\* the first token of the input, when `unset` tells which variables count
\* as absent: a variable that is absent fails the call with
\* UnresolvedEnvironmentVariable and its name, a file that cannot be read
\* with UnresolvedFileVariable and the directory joined with its path
FirstTokenFails(unset) ==
    \A i, j \in 1..Len(input) :
        FirstTokenAt(input, i, j) =>
            LET body == SubSeq(input, i + 2, j - 1)
                path == Beside(Dir, SubSeq(body, 6, Len(body))) IN
            IF NamesFile(body)
            THEN (path \notin DOMAIN files \/ ~is_unicode(files[path])) =>
                    /\ output.err.kind = "UnresolvedFileVariable"
                    /\ output.err.arg = path
            ELSE (body \in unset) =>
                    /\ output.err.kind = "UnresolvedEnvironmentVariable"
                    /\ output.err.arg = body

\* the variables of Segments that are not set
Absent == {<<"U">>, <<"E">>} \ DOMAIN env

\* the variables that are not set or hold a value that is not Unicode
AbsentOrNotUnicode == Absent \cup {<<"N">>}

Parent ==
    LET slashes == {k \in 1..Len(config_file) : config_file[k] = "/"} IN
    IF slashes = {} THEN <<".">>
    ELSE LET last == CHOOSE k \in slashes : \A m \in slashes : m <= k IN
         IF last = 1 THEN <<"/">> ELSE SubSeq(config_file, 1, last - 1)

\* s without the white space at its end
Stripped(s) ==
    LET n == CHOOSE n \in 0..Len(s) :
                 /\ n = 0 \/ s[n] \notin {" ", "\t", "\n"}
                 /\ \A k \in (n + 1)..Len(s) : s[k] \in {" ", "\t", "\n"} IN
    SubSeq(s, 1, n)

\* raw is one '${file:PATH}' and nothing else, and the file PATH names
\* beside the configuration file holds text
TokenOfFile(raw) ==
    /\ FirstTokenAt(raw, 1, Len(raw))
    /\ NamesFile(SubSeq(raw, 3, Len(raw) - 1))
    /\ Beside(Parent, SubSeq(raw, 8, Len(raw) - 1)) \in DOMAIN files
    /\ is_unicode(files[Beside(Parent, SubSeq(raw, 8, Len(raw) - 1))])

\* the text of the file that the token raw names beside the configuration
\* file, without the white space at its end
TextOfFile(raw) == Stripped(files[Beside(Parent, SubSeq(raw, 8, Len(raw) - 1))])

\* C23: a field written as '${file:PATH}' resolves to the content of the
\* file at PATH seen from the directory of the configuration file ('.'
\* when the path of the configuration file has no parent), not from the
\* working directory, without the white space at its end and with the
\* white space at its start.
C23_FileBesideConfig ==
    /\ (GithubDone /\ TokenOfFile(yaml.config.github.runners.name_prefix)) =>
          github.runners.name_prefix
            = TextOfFile(yaml.config.github.runners.name_prefix)
    /\ \A k \in 1..Len(out) :
          TokenOfFile(Raw(k).ssh.fingerprint) =>
              out[k].ssh.fingerprint = TextOfFile(Raw(k).ssh.fingerprint)

\* C23 happens: the configuration file is d/c, the name prefix is written
\* '${file:k}', and the resolved prefix is the text of d/k, the space at
\* its start kept, the tab and the newline at its end stripped, and not
\* that of the k of the working directory
C23_Witness ==
    /\ pc = "Done"
    /\ config_file = <<"d", "/", "c">>
    /\ yaml.config.github.runners.name_prefix = FileK
    /\ files[<<"d", "/", "k">>] = <<" ", "k", "\t", "\n">>
    /\ github.runners.name_prefix = <<" ", "k">>

\* the secrets of a GithubConfig or an SshConfig
Secrets(v) ==
    IF "host" \in DOMAIN v
    THEN <<v.password, v.private_key, v.private_key_passphrase>>
    ELSE <<v.personal_access_token>>

\* v with the secrets taken out
WithoutSecrets(v) ==
    IF "host" \in DOMAIN v
    THEN [v EXCEPT !.password = Empty, !.private_key = Empty,
                   !.private_key_passphrase = Empty]
    ELSE [v EXCEPT !.personal_access_token = Empty]

\* a and b differ at most in what their non-empty secrets hold
SameButSecrets(a, b) ==
    /\ WithoutSecrets(a) = WithoutSecrets(b)
    /\ \A k \in 1..Len(Secrets(a)) :
          is_empty(Secrets(a)[k]) <=> is_empty(Secrets(b)[k])

\* the text holds `part` somewhere, character by character
Holds(text, part) ==
    \E k \in 0..(Len(text) - Len(part)) :
        \A m \in 1..Len(part) : text[k + m] = part[m]

\* C24: the Debug text of a GithubConfig or an SshConfig is the same for
\* every value that differs from it only in what its non-empty secrets
\* hold, so nothing of a secret is in it, and the marker '[REDACTED]' is
\* written once for each non-empty secret and never for an empty one.
C24_Redacted ==
    pc = "Shown" =>
        /\ \A b \in DebugValues :
              SameButSecrets(shown, b) => Debug_fmt(b) = rendered
        /\ Cardinality({k \in 1..Len(rendered) : rendered[k] = "[REDACTED]"})
             = Cardinality({k \in 1..Len(Secrets(shown)) :
                              ~is_empty(Secrets(shown)[k])})

\* C24 happens: an SshConfig with a long private key and a passphrase, and
\* no password, has been written
C24_Witness ==
    /\ pc = "Shown"
    /\ "host" \in DOMAIN shown
    /\ is_empty(shown.password)
    /\ Len(shown.private_key) > 8
    /\ ~is_empty(shown.private_key_passphrase)
    /\ Holds(rendered, <<"private_key", ": ", "\"", "[REDACTED]", "\"">>)

\* the text holds a token: '${', then a character that is not '}', then,
\* somewhere after it, '}'
HasToken(text) ==
    \E i, j \in 1..Len(text) :
        /\ i + 3 <= j
        /\ text[i] = "$"
        /\ text[i + 1] = "{"
        /\ text[i + 2] # "}"
        /\ text[j] = "}"

\* the string fields of the resolved configuration, each with the value of
\* the document it was resolved from: <<resolved, of the document>>
StringFields ==
    {<<github.personal_access_token, yaml.config.github.personal_access_token>>,
     <<github.runners.name_prefix, yaml.config.github.runners.name_prefix>>,
     <<github.runners.scope, yaml.config.github.runners.scope>>,
     <<github.runners.repo_url, yaml.config.github.runners.repo_url>>,
     <<machine_defaults.ssh.host, yaml.config.machine_defaults.ssh.host>>,
     <<machine_defaults.ssh.fingerprint, Empty>>,
     <<machine_defaults.ssh.username, yaml.config.machine_defaults.ssh.username>>,
     <<machine_defaults.ssh.password, yaml.config.machine_defaults.ssh.password>>,
     <<machine_defaults.ssh.private_key,
       yaml.config.machine_defaults.ssh.private_key>>,
     <<machine_defaults.ssh.private_key_passphrase,
       yaml.config.machine_defaults.ssh.private_key_passphrase>>}
    \cup UNION {
        {<<out[k].id, Raw(k).id>>,
         <<out[k].ssh.fingerprint, Raw(k).ssh.fingerprint>>,
         <<out[k].ssh.host,
           Inherited(Raw(k).ssh.host, yaml.config.machine_defaults.ssh.host)>>,
         <<out[k].ssh.username,
           Inherited(Raw(k).ssh.username,
                     yaml.config.machine_defaults.ssh.username)>>,
         <<out[k].ssh.password,
           RawCredentials(Raw(k).ssh, yaml.config.machine_defaults.ssh)[1]>>,
         <<out[k].ssh.private_key,
           RawCredentials(Raw(k).ssh, yaml.config.machine_defaults.ssh)[2]>>,
         <<out[k].ssh.private_key_passphrase,
           RawCredentials(Raw(k).ssh, yaml.config.machine_defaults.ssh)[3]>>} :
        k \in 1..Len(out) }

\* the value of the document is written with '$$', or with the token of a
\* variable whose value holds a '$'
WritesDollar(raw) ==
    \/ Holds(raw, <<"$", "$">>)
    \/ \E name \in DOMAIN env :
          /\ Holds(env[name], <<"$">>)
          /\ Holds(raw, <<"$", "{">> \o name \o <<"}">>)

\* C25 as it was stated: no string field of a resolved configuration holds
\* a '${...}' token.
C25_NoTokenLeft ==
    pc = "Done" => \A f \in StringFields : ~HasToken(f[1])

\* C25, amended: every token of the document has been replaced in a
\* resolved configuration; a string field holds a '${...}' only when the
\* document wrote it with the escape '$$' or when it came in with the value
\* of a variable.
C25_TokensReplaced ==
    pc = "Done" => \A f \in StringFields : HasToken(f[1]) => WritesDollar(f[2])

\* C25 happens: the document has a field with a token and with no '$$' and no
\* variable that holds a '$', and in the resolved configuration the field
\* holds no token
C25_Witness ==
    /\ pc = "Done"
    /\ \E f \in StringFields :
          /\ HasToken(f[2])
          /\ ~WritesDollar(f[2])
          /\ ~HasToken(f[1])
    /\ \E f \in StringFields : HasToken(f[1])

\* the lookup (an entry of reads) found nothing it could give
LookupFails(read) ==
    IF read[1] = "env"
    THEN read[2] \notin DOMAIN env \/ ~is_unicode(env[read[2]])
    ELSE read[2] \notin DOMAIN files \/ ~is_unicode(files[read[2]])

\* C26: once a token of a string has failed, the tokens after it in the
\* string are not evaluated: the lookup that failed is the last lookup the
\* call made.
C26_NoLookupAfterFailure ==
    pc = "Resolved" =>
        \A k \in 1..(Len(output.reads) - 1) : ~LookupFails(output.reads[k])

\* the lookups one call of resolve makes for s
Lookups(s) == resolve(Dir, s).reads

\* the name prefix is the first thing of the document that cannot be
\* resolved: machine_defaults and the token before it can
PrefixFailsFirst ==
    /\ yaml.status = "ok"
    /\ DefaultsError.kind = "None"
    /\ Resolvable(yaml.config.github.personal_access_token)
    /\ ~Resolvable(yaml.config.github.runners.name_prefix)

\* the fingerprint of the first machine is the first thing of the document
\* that cannot be resolved
FingerprintFailsFirst ==
    /\ yaml.status = "ok"
    /\ StageError.kind = "None"
    /\ Len(yaml.config.machines) > 0
    /\ Resolvable(yaml.config.machines[1].id)
    /\ ~is_empty(yaml.config.machines[1].ssh.host)
    /\ Resolvable(yaml.config.machines[1].ssh.host)
    /\ ~Resolvable(yaml.config.machines[1].ssh.fingerprint)

\* C27 as it was stated: a failure stops the field it is in only; the
\* fields after it are still resolved (their lookups follow those of the
\* failed field) and the first error is returned.
C27_SiblingsStillResolved ==
    /\ (pc = "Failed" /\ PrefixFailsFirst) =>
          /\ error = resolve(Dir, yaml.config.github.runners.name_prefix).err
          /\ Holds(reads, Lookups(yaml.config.github.runners.name_prefix)
                            \o Lookups(yaml.config.github.runners.scope)
                            \o Lookups(yaml.config.github.runners.repo_url))
    /\ (pc = "Failed" /\ FingerprintFailsFirst) =>
          /\ error = resolve(Dir, yaml.config.machines[1].ssh.fingerprint).err
          /\ Holds(reads, Lookups(yaml.config.machines[1].ssh.fingerprint)
                            \o Lookups(yaml.config.machines[1].ssh.username))

\* the lookups of the run end with those of s
EndsWith(s) ==
    /\ Len(Lookups(s)) <= Len(reads)
    /\ SubSeq(reads, Len(reads) - Len(Lookups(s)) + 1, Len(reads)) = Lookups(s)

\* C27, amended: a substitution failure stops the whole scan of the
\* document, not only the field it is in: the run fails with the error of
\* that field, and no field after it is resolved, so the last lookups of
\* the run are those of the failed field.
C27_FailureStopsScan ==
    /\ (pc = "Failed" /\ PrefixFailsFirst) =>
          /\ error = resolve(Dir, yaml.config.github.runners.name_prefix).err
          /\ EndsWith(yaml.config.github.runners.name_prefix)
    /\ (pc = "Failed" /\ FingerprintFailsFirst) =>
          /\ error = resolve(Dir, yaml.config.machines[1].ssh.fingerprint).err
          /\ EndsWith(yaml.config.machines[1].ssh.fingerprint)
          /\ out = <<>>

\* C27 happens: the name prefix names a file that is not there, the
\* repository URL after it holds the token of M, and the run has failed
\* without a lookup of M
C27_Witness ==
    /\ pc = "Failed"
    /\ PrefixFailsFirst
    /\ yaml.config.github.runners.name_prefix = FileQ
    /\ Lookups(yaml.config.github.runners.repo_url) = << <<"env", <<"M">> >> >>
    /\ \A k \in 1..Len(reads) : reads[k] # <<"env", <<"M">> >>

\* C28: in every machine of a resolved configuration exactly one of
\* password and private key is not empty, and the passphrase is not empty
\* only beside a private key; so connect, which takes the private key when
\* the password is empty, always has a key that is not empty, hands on the
\* passphrase only with it, and never leaves a password of the machine
\* unused.
C28_OneCredential ==
    pc = "Done" =>
        \A k \in 1..Len(out) :
            /\ is_empty(out[k].ssh.password) # is_empty(out[k].ssh.private_key)
            /\ ~is_empty(out[k].ssh.private_key_passphrase) =>
                  ~is_empty(out[k].ssh.private_key)
            /\ ~is_empty(userauth(out[k].ssh).secret)
            /\ userauth(out[k].ssh).method = "pubkey_memory" =>
                  /\ userauth(out[k].ssh).secret = out[k].ssh.private_key
                  /\ is_empty(out[k].ssh.password)
            /\ userauth(out[k].ssh).method = "password" =>
                  /\ userauth(out[k].ssh).secret = out[k].ssh.password
                  /\ is_empty(out[k].ssh.private_key)
                  /\ is_empty(out[k].ssh.private_key_passphrase)

\* C28 happens: a machine of the document has a password and a private key
\* with a passphrase, and is resolved with the key and the passphrase and
\* without the password
C28_Witness ==
    /\ pc = "Done"
    /\ Len(out) = 1
    /\ ~is_empty(Raw(1).ssh.password)
    /\ ~is_empty(Raw(1).ssh.private_key)
    /\ ~is_empty(out[1].ssh.private_key_passphrase)
    /\ userauth(out[1].ssh).method = "pubkey_memory"
    /\ userauth(out[1].ssh).passphrase.some

\* the commands of a whole call of start_runner, in their order
AllCommands == <<"pull", "run", "rename">>

\* C29: start_runner leaves out 'docker image pull' only when the cache
\* check gave Ok(true), and the check gives Ok(true) only when the cache
\* file is on the remote machine and holds the current version, the whole
\* days since the epoch, and nothing else; when the file is missing, the
\* version another, or the check failed, the image is pulled; the pull is
\* done before the container is run, and the run before the rename.
C29_PullUnlessCached ==
    /\ [](runner.pc \in {"Pulled", "Created", "Started"} =>
            /\ runner.is_valid = "Ok(true)" =>
                  runner.log = SubSeq(AllCommands, 2, Len(runner.log) + 1)
            /\ runner.is_valid # "Ok(true)" =>
                  /\ Len(runner.log) >= 1
                  /\ runner.log = SubSeq(AllCommands, 1, Len(runner.log)))
    /\ [](runner.pc = "Started" =>
            /\ Len(runner.log) >= 2
            /\ SubSeq(runner.log, Len(runner.log) - 1, Len(runner.log))
                 = <<"run", "rename">>)
    /\ [](runner.pc = "Failed" =>
            \E n \in 0..2 :
                \/ runner.log = SubSeq(AllCommands, 1, n)
                \/ runner.is_valid = "Ok(true)"
                     /\ runner.log = SubSeq(AllCommands, 2, n))
    /\ [][(runner.pc = "Connected" /\ runner'.pc = "Checked") =>
            /\ runner'.is_valid = "Ok(true)" =>
                  /\ remote.is_file
                  /\ remote.content
                       = to_string(clock \div 86400) \o <<"\n">>
                  /\ remote' = remote
            /\ (~remote.is_file
                   \/ remote.content # to_string(clock \div 86400) \o <<"\n">>)
                  => runner'.is_valid \in {"Ok(false)", "Err"}]_vars

\* C29 happens: on the second day the cache file held the version of the
\* first, the check gave Ok(false), and the image was pulled, the container
\* run and renamed
C29_Witness ==
    /\ runner.pc = "Started"
    /\ clock \div 86400 = 1
    /\ runner.is_valid = "Ok(false)"
    /\ ~runner.failed
    /\ remote.content = <<"0", "\n", "1", "\n">>
    /\ runner.log = <<"pull", "run", "rename">>

\* C30: when a call of is_valid_cache_image found the cache file missing
\* or stale and recorded the current version, no command failing, the next
\* call at the same version with no command failing gives Ok(true), after
\* the first call and after every later day alike.
C30_ValidAfterRecording ==
    [][(/\ runner.pc = "Connected"
        /\ runner'.pc = "Checked"
        /\ runner.recorded
        /\ ~runner.failed
        /\ runner'.version = runner.version
        /\ ~runner'.failed)
       => runner'.is_valid = "Ok(true)"]_vars

====
